---- MODULE Spec2Model ----
(***************************************************************************)
(* Model of the retail front end: the Dashboard page (summary cards, the   *)
(* three charts computed from the fetched transaction list, the low-stock  *)
(* table), the Transactions page (totals, sales by date, the modal), the   *)
(* Products page, the api module and the router with its route guards.     *)
(*                                                                         *)
(* Conventions.                                                            *)
(*  - An instant (a JavaScript Date) is a number of hours since            *)
(*    1970-01-01T00:00Z.  The browser's time zone is a fixed offset tz in  *)
(*    hours (no daylight-saving rule is modelled).                         *)
(*  - A 'YYYY-MM-DD' string is the tuple <<y, m, d>>; the empty string is  *)
(*    the empty tuple.  An ISO timestamp (created_at) is <<y, m, d, h>>,   *)
(*    in UTC.  A 'dd/mm' label is the tuple <<d, m>>.                      *)
(*  - An optional field is <<>> when missing and <<v>> when present.       *)
(*  - Amounts are integer numbers of cents (the forms use step 0.01).      *)
(***************************************************************************)
EXTENDS Integers, Sequences, FiniteSets, Bags, TLC

VARIABLES
  tz,              \* time-zone offset of the browser, hours east of UTC
  now,             \* the current instant (what `new Date()` returns)
  period,          \* Dashboard: selected period
  customFrom,      \* Dashboard: custom lower bound ('' or a date)
  customTo,        \* Dashboard: custom upper bound ('' or a date)
  transactions,    \* Dashboard / Transactions page: the fetched list
  pending,         \* number of getTransactions calls in flight
  data,            \* Dashboard: the fetched summary (null until loaded)
  loading,         \* Dashboard: true until loadDashboard has settled
  serverProducts,  \* backend: the shop's products
  serverTx,        \* backend: the shop's transactions
  filterType,      \* Transactions page: the type filter ('' for all)
  dateFrom,        \* Transactions page: the date filters ('' or a date)
  dateTo,
  products,        \* Transactions / Products page: the fetched product list
  pendingProducts, \* number of getProducts calls in flight
  showModal,       \* Transactions / Products page: is the modal open
  error,           \* the error message of the modal ('' for none)
  formData,        \* the fields of the modal's form
  editingProduct,  \* Products page: the product being edited (null if none)
  isSuperAdmin,    \* the role of the signed-in user
  search,          \* Products page: the search text
  requests,        \* the bag of the calls in flight
  token,           \* localStorage: the item 'token' (null if none)
  user,            \* useAuth(): the signed-in user (null if none)
  isLoading,       \* useAuth(): true until the stored session has been read
  history          \* the router: the requested path and the redirects since

vars == <<tz, now, period, customFrom, customTo, transactions, pending,
          data, loading, serverProducts, serverTx, filterType, dateFrom, dateTo,
          products, pendingProducts, showModal, error, formData, editingProduct,
          isSuperAdmin, search, requests, token, user, isLoading, history>>

\* The variables of the Dashboard charts, of the Dashboard summary, of the
\* Transactions page filters, of the product list and of the modal forms.
chartVars == <<period, customFrom, customTo>>
summaryVars == <<data, loading, serverProducts, serverTx>>
pageVars == <<filterType, dateFrom, dateTo>>
productVars == <<products, pendingProducts>>
formVars == <<showModal, error, formData, editingProduct, isSuperAdmin, search, requests>>
\* The variables of the session and of the router.
authVars == <<token, user, isLoading, history>>

\* A page of the back office is on screen: the session has been read, a
\* user of the role is signed in, the token is stored and the router has
\* rendered the page's path without a redirect.
SignedInAt(path) ==
  /\ token = <<"t1">>
  /\ user = <<[role |-> IF isSuperAdmin THEN "SuperAdmin" ELSE "Admin"]>>
  /\ isLoading = FALSE
  /\ history = <<path>>

(***************************************************************************)
(* Calendar arithmetic of the JavaScript Date object (proleptic Gregorian). *)
(***************************************************************************)

\* Number of days from 1970-01-01 to the civil date y-m-d.
DaysFromCivil(y, m, d) ==
  LET yy  == IF m <= 2 THEN y - 1 ELSE y
      era == yy \div 400
      yoe == yy - era * 400
      mp  == IF m > 2 THEN m - 3 ELSE m + 9
      doy == (153 * mp + 2) \div 5 + d - 1
      doe == yoe * 365 + yoe \div 4 - yoe \div 100 + doy
  IN  era * 146097 + doe - 719468

\* The civil date <<y, m, d>> of day number z (days since 1970-01-01).
CivilFromDays(z) ==
  LET zz  == z + 719468
      era == zz \div 146097
      doe == zz - era * 146097
      yoe == (doe - doe \div 1460 + doe \div 36524 - doe \div 146096) \div 365
      doy == doe - (365 * yoe + yoe \div 4 - yoe \div 100)
      mp  == (5 * doy + 2) \div 153
      d   == doy - (153 * mp + 2) \div 5 + 1
      m   == IF mp < 10 THEN mp + 3 ELSE mp - 9
      y   == yoe + era * 400 + (IF m <= 2 THEN 1 ELSE 0)
  IN  <<y, m, d>>

\* new Date('YYYY-MM-DD'): a date-only string is parsed as UTC midnight.
ParseDate(s) == DaysFromCivil(s[1], s[2], s[3]) * 24

\* new Date(created_at): an ISO timestamp with a time, in UTC.
ParseTimestamp(s) == DaysFromCivil(s[1], s[2], s[3]) * 24 + s[4]

\* d.toISOString().split('T')[0]: the UTC calendar date of the instant.
ToISODate(t) == CivilFromDays(t \div 24)

\* The local day number (days since 1970-01-01 on the local calendar).
LocalDays(t) == (t + tz) \div 24

\* d.getDate(), d.getDay(): local day of month, local weekday (0 = Sunday).
GetDate(t) == CivilFromDays(LocalDays(t))[3]
GetDay(t) == (LocalDays(t) + 4) % 7

\* d.setDate(n): day n of the local month of d, same local time of day;
\* n outside the month rolls over into the neighbouring months.
SetDate(t, n) ==
  LET c == CivilFromDays(LocalDays(t))
  IN  (DaysFromCivil(c[1], c[2], 1) + n - 1) * 24 + ((t + tz) % 24) - tz

\* d.toLocaleDateString('fr-FR', {day: '2-digit', month: '2-digit'}): 'dd/mm'
DayKey(t) ==
  LET c == CivilFromDays(LocalDays(t))
  IN  <<c[3], c[2]>>

(***************************************************************************)
(* JavaScript object and array helpers.                                    *)
(***************************************************************************)

\* A Record<string, V> is the sequence of its <<key, value>> entries in
\* insertion order, which is the order Object.entries returns them in (the
\* keys used here are never integer-like strings).
HasKey(map, key) == \E i \in 1..Len(map) : map[i][1] = key

\* map[key], for a key that is present.
Get(map, key) == map[CHOOSE i \in 1..Len(map) : map[i][1] = key][2]

\* map[key] = value
Put(map, key, value) ==
  IF HasKey(map, key)
  THEN [i \in 1..Len(map) |-> IF map[i][1] = key THEN <<key, value>> ELSE map[i]]
  ELSE Append(map, <<key, value>>)

\* Array.prototype.sort(cmp): a stable sort; before[i][j] is
\* cmp(arr[i], arr[j]) < 0.  Element i lands behind every element that is
\* strictly before it and behind every earlier element it is not strictly
\* before.
Sort(arr, before) ==
  LET n == Len(arr)
      rank == [i \in 1..n |->
                 1 + Cardinality({j \in 1..n :
                       /\ j # i
                       /\ \/ before[j][i]
                          \/ (~before[i][j] /\ j < i)})]
  IN  [p \in 1..n |-> arr[CHOOSE i \in 1..n : rank[i] = p]]

\* LabelBefore with the comparison turned round (b.localeCompare(a) < 0)
LabelBeforeReversed(a, b) == b[1] < a[1] \/ (b[1] = a[1] /\ b[2] < a[2])

\* a.localeCompare(b) < 0 for two 'dd/mm' labels: both are two digits, a
\* slash, two digits, so the strings compare by day first, then by month.
LabelBefore(a, b) == a[1] < b[1] \/ (a[1] = b[1] /\ a[2] < b[2])

\* `x || 0` for an optional number
OrZero(x) == IF x = <<>> THEN 0 ELSE x[1]

(***************************************************************************)
(* Texts and numbers.  The text of an input field is the sequence of its   *)
(* characters.  A JavaScript number is a record: NaN, or a value.  A       *)
(* number that is an amount or a price is counted in cents, so the text    *)
(* '7.5' is the number 750; the rounding of binary floating point is not   *)
(* modelled (the texts used have at most two decimals).                    *)
(***************************************************************************)

NaN == [nan |-> TRUE, v |-> 0]
Num(v) == [nan |-> FALSE, v |-> v]

DigitChars == <<"0", "1", "2", "3", "4", "5", "6", "7", "8", "9">>

IsDigit(c) == \E i \in 1..Len(DigitChars) : DigitChars[i] = c

DigitValue(c) == (CHOOSE i \in 1..Len(DigitChars) : DigitChars[i] = c) - 1

\* The value of a string of digits, and how many digits a string starts with.
RECURSIVE DigitsValue(_)
DigitsValue(s) ==
  IF s = <<>> THEN 0
  ELSE DigitsValue(SubSeq(s, 1, Len(s) - 1)) * 10 + DigitValue(s[Len(s)])

LeadingDigits(s) == Cardinality({k \in 1..Len(s) : \A j \in 1..k : IsDigit(s[j])})

RECURSIVE PowerOfTen(_)
PowerOfTen(n) == IF n = 0 THEN 1 ELSE 10 * PowerOfTen(n - 1)

\* parseInt(s): an optional sign and the digits the string starts with;
\* whatever follows them (a fraction, an exponent) is not read.  NaN when
\* there is no digit to read.
parseInt(s) ==
  LET signed == s # <<>> /\ s[1] \in {"-", "+"}
      body == IF signed THEN Tail(s) ELSE s
      n == LeadingDigits(body)
      abs == DigitsValue(SubSeq(body, 1, n))
  IN  IF n = 0 THEN NaN
      ELSE Num(IF signed /\ s[1] = "-" THEN 0 - abs ELSE abs)

\* parseFloat(s), in hundredths: an optional sign, digits, an optional
\* fraction and an optional exponent (without a sign).  NaN when there is
\* no digit before or after the point ('' and 'NaN' among others).
parseFloat(s) ==
  LET signed == s # <<>> /\ s[1] \in {"-", "+"}
      body == IF signed THEN Tail(s) ELSE s
      n1 == LeadingDigits(body)
      rest1 == SubSeq(body, n1 + 1, Len(body))
      point == rest1 # <<>> /\ rest1[1] = "."
      frac == IF point THEN Tail(rest1) ELSE <<>>
      n2 == LeadingDigits(frac)
      rest2 == IF point THEN SubSeq(frac, n2 + 1, Len(frac)) ELSE rest1
      e == /\ rest2 # <<>>
           /\ rest2[1] \in {"e", "E"}
           /\ LeadingDigits(Tail(rest2)) > 0
      exponent == IF e THEN DigitsValue(SubSeq(Tail(rest2), 1, LeadingDigits(Tail(rest2))))
                  ELSE 0
      hundredths == IF n2 = 0 THEN 0
                    ELSE IF n2 = 1 THEN 10 * DigitValue(frac[1])
                    ELSE 10 * DigitValue(frac[1]) + DigitValue(frac[2])
      abs == (100 * DigitsValue(SubSeq(body, 1, n1)) + hundredths) * PowerOfTen(exponent)
  IN  IF n1 + n2 = 0 THEN NaN
      ELSE Num(IF signed /\ s[1] = "-" THEN 0 - abs ELSE abs)

\* The decimal digits of a natural number.
RECURSIVE DigitsOf(_)
DigitsOf(n) ==
  IF n < 10 THEN <<DigitChars[n + 1]>>
  ELSE Append(DigitsOf(n \div 10), DigitChars[(n % 10) + 1])

\* x.toString() for a number of cents: the shortest decimal, without
\* trailing zeros and without a point for a whole number; 'NaN' for NaN.
NumberToString(x) ==
  LET abs == IF x.v < 0 THEN 0 - x.v ELSE x.v
      cents == abs % 100
      fraction == IF cents = 0 THEN <<>>
                  ELSE IF cents % 10 = 0 THEN <<".", DigitChars[(cents \div 10) + 1]>>
                  ELSE <<".", DigitChars[(cents \div 10) + 1], DigitChars[(cents % 10) + 1]>>
  IN  IF x.nan THEN <<"N", "a", "N">>
      ELSE (IF x.v < 0 THEN <<"-">> ELSE <<>>) \o DigitsOf(abs \div 100) \o fraction

\* x.toFixed(2) for a number of cents: always two decimals.
ToFixed2(x) ==
  LET abs == IF x.v < 0 THEN 0 - x.v ELSE x.v
  IN  IF x.nan THEN <<"N", "a", "N">>
      ELSE (IF x.v < 0 THEN <<"-">> ELSE <<>>) \o DigitsOf(abs \div 100)
             \o <<".", DigitChars[((abs % 100) \div 10) + 1], DigitChars[(abs % 10) + 1]>>

(***************************************************************************)
(* Dashboard: the date range and the three charts.                         *)
(***************************************************************************)

\* The number of days each preset period reaches back.
PeriodDays(p) == IF p = "7j" THEN 7 ELSE IF p = "30j" THEN 30 ELSE 90

getDateRangeAt(p, cFrom, cTo, at) ==
  IF p = "custom" THEN [from |-> cFrom, to |-> cTo]
  ELSE LET to == at
           from == SetDate(at, GetDate(at) - PeriodDays(p))
       IN  [from |-> ToISODate(from), to |-> ToISODate(to)]

getDateRange == getDateRangeAt(period, customFrom, customTo, now)

\* The forEach of salesByDay: Sale amounts accumulated per 'dd/mm' label.
RECURSIVE dayMapFrom(_, _, _)
dayMapFrom(map, txs, i) ==
  IF i > Len(txs) THEN map
  ELSE LET t == txs[i]
           day == DayKey(ParseTimestamp(t.created_at))
           old == IF HasKey(map, day) THEN Get(map, day) ELSE 0
       IN  dayMapFrom(Put(map, day, old + t.amount), txs, i + 1)

\* dayMap without its filter on the type
dayMapOfEveryType(txs) == dayMapFrom(<<>>, txs, 1)

dayMap(txs) == dayMapFrom(<<>>, SelectSeq(txs, LAMBDA t : t.type = "Sale"), 1)

\* The while loop of salesByDay.  The cursor after k rounds of
\* `cur.setDate(cur.getDate() + 1)` is the start with its day of month
\* advanced by k (setDate rolls over month ends); the loop pushes one point
\* per round for as long as the cursor, which only moves forward, is not
\* past the end.
dayCursor(start, k) == SetDate(start, GetDate(start) + k)

\* dayLoop as a do-while: the first point is pushed before the test
dayLoopAtLeastOnce(cur, end, map) ==
  LET most == IF cur <= end THEN (end - cur) \div 24 + 1 ELSE 0
      tested == Cardinality({k \in 0..most : dayCursor(cur, k) <= end})
      rounds == IF tested = 0 THEN 1 ELSE tested
  IN  [i \in 1..rounds |->
         LET key == DayKey(dayCursor(cur, i - 1))
         IN  [date |-> key, ventes |-> IF HasKey(map, key) THEN Get(map, key) ELSE 0]]

dayLoop(cur, end, map) ==
  LET most == IF cur <= end THEN (end - cur) \div 24 + 1 ELSE 0
      rounds == Cardinality({k \in 0..most : dayCursor(cur, k) <= end})
  IN  [i \in 1..rounds |->
         LET key == DayKey(dayCursor(cur, i - 1))
         IN  [date |-> key, ventes |-> IF HasKey(map, key) THEN Get(map, key) ELSE 0]]

\* salesByDayOf with one point of zero put in for a list without a Sale
\* when no range is supplied
salesByDayOfPlaceholder(txs, range) ==
  LET map == dayMap(txs)
  IN  IF range.from = <<>> \/ range.to = <<>>
      THEN IF map = <<>> THEN <<[date |-> <<1, 1>>, ventes |-> 0]>>
           ELSE [i \in 1..Len(map) |-> [date |-> map[i][1], ventes |-> map[i][2]]]
      ELSE dayLoop(ParseDate(range.from), ParseDate(range.to), map)

salesByDayOf(txs, range) ==
  LET map == dayMap(txs)
  IN  IF range.from = <<>> \/ range.to = <<>>
      THEN [i \in 1..Len(map) |-> [date |-> map[i][1], ventes |-> map[i][2]]]
      ELSE dayLoop(ParseDate(range.from), ParseDate(range.to), map)

salesByDay == salesByDayOf(transactions, getDateRange)

\* The Monday label a transaction is filed under in salesVsExpenses.
weekKey(t) ==
  LET d == ParseTimestamp(t.created_at)
      day == GetDay(d)
      diff == GetDate(d) - day + (IF day = 0 THEN -6 ELSE 1)
      monday == SetDate(ParseTimestamp(t.created_at), diff)
  IN  DayKey(monday)

RECURSIVE weekMapFrom(_, _, _)
weekMapFrom(map, txs, i) ==
  IF i > Len(txs) THEN map
  ELSE LET t == txs[i]
           key == weekKey(t)
           old == IF HasKey(map, key) THEN Get(map, key) ELSE [ventes |-> 0, depenses |-> 0]
           v1  == IF t.type = "Sale" THEN [old EXCEPT !.ventes = @ + t.amount] ELSE old
           v2  == IF t.type = "Expense" \/ t.type = "Withdrawal"
                  THEN [v1 EXCEPT !.depenses = @ + t.amount] ELSE v1
       IN  weekMapFrom(Put(map, key, v2), txs, i + 1)

\* salesVsExpensesOf with a bucket of zeros made up for the week that
\* follows the week of the first transaction, as the daily series fills gaps
salesVsExpensesOfGapFilled(txs) ==
  LET map0 == weekMapFrom(<<>>, txs, 1)
      d == ParseTimestamp(txs[1].created_at)
      day == GetDay(d)
      monday == SetDate(d, GetDate(d) - day + (IF day = 0 THEN -6 ELSE 1))
      next == DayKey(SetDate(monday, GetDate(monday) + 7))
      map == IF txs = <<>> \/ HasKey(map0, next) THEN map0
             ELSE Append(map0, <<next, [ventes |-> 0, depenses |-> 0]>>)
      sorted == Sort(map, [i \in 1..Len(map) |-> [j \in 1..Len(map) |->
                              LabelBefore(map[i][1], map[j][1])]])
  IN  [i \in 1..Len(sorted) |->
         [semaine |-> sorted[i][1], ventes |-> sorted[i][2].ventes,
          depenses |-> sorted[i][2].depenses]]

salesVsExpensesOf(txs) ==
  LET map == weekMapFrom(<<>>, txs, 1)
      sorted == Sort(map, [i \in 1..Len(map) |-> [j \in 1..Len(map) |->
                              LabelBefore(map[i][1], map[j][1])]])
  IN  [i \in 1..Len(sorted) |->
         [semaine |-> sorted[i][1], ventes |-> sorted[i][2].ventes,
          depenses |-> sorted[i][2].depenses]]

salesVsExpenses == salesVsExpensesOf(transactions)

\* The number of entries the top-product chart keeps.
TopN == 8

\* `map` starts as the object literal {}, so map[name] for one of these names
\* is the member inherited from Object.prototype, never undefined.
ObjectPrototypeKeys ==
  {"constructor", "__proto__", "toString", "toLocaleString", "valueOf",
   "hasOwnProperty", "isPrototypeOf", "propertyIsEnumerable"}

RECURSIVE productMapFrom(_, _, _)
productMapFrom(map, txs, i) ==
  IF i > Len(txs) THEN map
  ELSE LET t == txs[i]
           name == t.product[1]
           old == IF HasKey(map, name) THEN Get(map, name) ELSE [quantite |-> 0, montant |-> 0]
           new == [quantite |-> old.quantite + OrZero(t.quantity),
                   montant |-> old.montant + t.amount]
       IN  IF ~HasKey(map, name) /\ name \in ObjectPrototypeKeys
           THEN \* map[name] is truthy: no entry is created, and the two +=
                \* write to the inherited member, not to map
                productMapFrom(map, txs, i + 1)
           ELSE productMapFrom(Put(map, name, new), txs, i + 1)

\* topProducts before the final slice
rankedProducts(txs) ==
  LET sales == SelectSeq(txs, LAMBDA t : t.type = "Sale" /\ t.product # <<>> /\ t.product # <<"">>)
      map == productMapFrom(<<>>, sales, 1)
      entries == [i \in 1..Len(map) |->
                    [produit |-> map[i][1], quantite |-> map[i][2].quantite,
                     montant |-> map[i][2].montant]]
  IN  Sort(entries, [i \in 1..Len(entries) |-> [j \in 1..Len(entries) |->
                        entries[j].montant - entries[i].montant < 0]])

topProductsOf(txs) ==
  LET ranked == rankedProducts(txs)
  IN  SubSeq(ranked, 1, IF Len(ranked) < TopN THEN Len(ranked) ELSE TopN)

topProducts == topProductsOf(transactions)

(***************************************************************************)
(* Bounds and input sets.                                                  *)
(***************************************************************************)

MaxTx == 2          \* longest transaction list a fetch returns
MaxPending == 2     \* most getTransactions calls in flight at once
MaxTicks == 1       \* how many times the clock advances
TickHours == 2      \* by how much it advances each time

TimeZones == {-5, 1}

\* The dates the custom bounds are picked from.
DateChoices == {<<2023, 1, 10>>, <<2024, 1, 9>>, <<2024, 1, 11>>}

\* 2024-01-10T23:00Z: already the 11th in a zone east of Greenwich.
Now0 == ParseTimestamp(<<2024, 1, 10, 23>>)

Tx(type, product, quantity, amount, created_at) ==
  [type |-> type, product |-> product, quantity |-> quantity,
   amount |-> amount, created_at |-> created_at]

\* The transactions the backend may return to the Dashboard: the same day
\* of two years, a Monday of 2018 and the week of Monday 2024-01-01, early
\* and late hours that change day with the time zone.
ChartTx ==
  { Tx("Sale", <<"cable">>, <<1>>, 100, <<2023, 1, 10, 12>>),
    Tx("Sale", <<"phone">>, <<2>>, 250, <<2024, 1, 10, 2>>),
    Tx("Expense", <<>>, <<>>, 400, <<2024, 1, 10, 12>>),
    Tx("Sale", <<"cable">>, <<>>, 800, <<2018, 1, 1, 12>>),
    Tx("Withdrawal", <<>>, <<>>, 1600, <<2024, 1, 7, 12>>),
    Tx("Sale", <<"phone">>, <<1>>, 3200, <<2023, 12, 31, 23>>) }

\* The lists of at most n distinct transactions of U, in any order.
TxLists(U, n) ==
  UNION { {s \in [1..k -> U] : \A i, j \in 1..k : i # j => s[i] # s[j]} : k \in 0..n }

(***************************************************************************)
(* Dashboard: period selection and the transaction fetch.                  *)
(***************************************************************************)

\* loadTransactions without its early return
loadTransactionsCallsAlways(p, cFrom, cTo) == TRUE

\* loadTransactions, up to its await: does it issue a getTransactions call?
loadTransactionsCalls(p, cFrom, cTo) ==
  LET range == getDateRangeAt(p, cFrom, cTo, now)
  IN  ~(p = "custom" /\ (range.from = <<>> \/ range.to = <<>>))

\* The effect on [period, customFrom, customTo]: it runs loadTransactions
\* after a render in which one of the three changed.
periodEffect(p, cFrom, cTo) ==
  IF loadTransactionsCalls(p, cFrom, cTo)
  THEN pending < MaxPending /\ pending' = pending + 1
  ELSE pending' = pending

\* onClick of a period button
setPeriod(p) ==
  /\ p # period
  /\ period' = p
  /\ periodEffect(p, customFrom, customTo)
  /\ UNCHANGED <<tz, authVars, now, customFrom, customTo, transactions, summaryVars, pageVars, productVars, formVars>>

\* onChange of the two date inputs, which exist only in the custom period
setCustomFrom(d) ==
  /\ period = "custom"
  /\ d # customFrom
  /\ customFrom' = d
  /\ periodEffect(period, d, customTo)
  /\ UNCHANGED <<tz, authVars, now, period, customTo, transactions, summaryVars, pageVars, productVars, formVars>>

setCustomTo(d) ==
  /\ period = "custom"
  /\ d # customTo
  /\ customTo' = d
  /\ periodEffect(period, customFrom, d)
  /\ UNCHANGED <<tz, authVars, now, period, customFrom, transactions, summaryVars, pageVars, productVars, formVars>>

\* loadTransactions after its await: the call resolved with this list
loadTransactionsResolved(list) ==
  /\ pending > 0
  /\ pending' = pending - 1
  /\ transactions' = list
  /\ UNCHANGED <<tz, authVars, now, chartVars, summaryVars, pageVars, productVars, formVars>>

\* loadTransactions after its await: the call failed, which is only logged
loadTransactionsRejected ==
  /\ pending > 0
  /\ pending' = pending - 1
  /\ UNCHANGED <<tz, authVars, now, chartVars, transactions, summaryVars, pageVars, productVars, formVars>>

\* time passes
Tick ==
  /\ now < Now0 + MaxTicks * TickHours
  /\ now' = now + TickHours
  /\ UNCHANGED <<tz, authVars, chartVars, transactions, pending, summaryVars, pageVars, productVars, formVars>>

\* The Dashboard once mounted: both effects have run, so the summary and
\* the transactions of the last 30 days are being fetched.
DashboardMounted ==
  /\ now = Now0
  /\ period = "30j"
  /\ customFrom = <<>>
  /\ customTo = <<>>
  /\ transactions = <<>>
  /\ pending = 1
  /\ data = <<>>
  /\ loading = TRUE
  /\ filterType = ""
  /\ dateFrom = <<>>
  /\ dateTo = <<>>
  /\ products = <<>>
  /\ pendingProducts = 0
  /\ showModal = FALSE
  /\ error = ""
  /\ formData = <<>>
  /\ editingProduct = <<>>
  /\ isSuperAdmin = TRUE
  /\ search = ""
  /\ requests = EmptyBag

Init ==
  /\ tz \in TimeZones
  /\ serverProducts = <<>>
  /\ serverTx = <<>>
  /\ DashboardMounted
  /\ SignedInAt("/dashboard")

Next ==
  \/ \E p \in {"7j", "30j", "90j", "custom"} : setPeriod(p)
  \/ \E d \in DateChoices \cup {<<>>} : setCustomFrom(d)
  \/ \E d \in DateChoices \cup {<<>>} : setCustomTo(d)
  \/ \E list \in TxLists(ChartTx, MaxTx) : loadTransactionsResolved(list)
  \/ loadTransactionsRejected
  \/ Tick

Spec == Init /\ [][Next]_vars

\* The same page within one moment: the clock does not advance.
NextSeries ==
  \/ \E p \in {"7j", "30j", "90j", "custom"} : setPeriod(p)
  \/ \E d \in {<<>>, <<2024, 1, 9>>, <<2024, 1, 11>>} : setCustomFrom(d)
  \/ \E d \in {<<>>, <<2024, 1, 9>>, <<2024, 1, 11>>} : setCustomTo(d)
  \/ \E list \in TxLists(ChartTx, MaxTx) : loadTransactionsResolved(list)
  \/ loadTransactionsRejected

SpecSeries == Init /\ [][NextSeries]_vars

(***************************************************************************)
(* The Dashboard fed with lists that have many products (top-product       *)
(* chart).                                                                 *)
(***************************************************************************)

NumNames == 9       \* how many products have a sale of their own in a list

ProductNames ==
  <<"cable", "phone", "charger", "battery", "screen", "mouse",
    "keyboard", "speaker", "router", "lamp", "drone", "camera">>

\* One Sale per product for the first k products, of 100 or 200 cents each.
OneSaleEach(amt) ==
  [i \in DOMAIN amt |-> Tx("Sale", <<ProductNames[i]>>, <<1>>, 100 * amt[i], <<2024, 1, 10, 12>>)]

\* What may follow them: a second sale of a product (with and without a
\* quantity), records that are not sales of a named product, and a sale of
\* a product whose name is a member of Object.prototype.
Tails ==
  { <<>>,
    <<Tx("Sale", <<"cable">>, <<>>, 300, <<2024, 1, 9, 12>>)>>,
    <<Tx("Sale", <<"phone">>, <<3>>, 50, <<2024, 1, 9, 12>>)>>,
    <<Tx("Expense", <<"cable">>, <<2>>, 500, <<2024, 1, 9, 12>>)>>,
    <<Tx("Sale", <<>>, <<1>>, 500, <<2024, 1, 9, 12>>)>>,
    <<Tx("Sale", <<"">>, <<1>>, 500, <<2024, 1, 9, 12>>)>>,
    <<Tx("Sale", <<"constructor">>, <<1>>, 500, <<2024, 1, 9, 12>>)>> }

TopLists ==
  UNION { {OneSaleEach(amt) \o tail : amt \in [1..k -> {1, 2}], tail \in Tails} : k \in 0..NumNames }

\* The shop has one of these lists, all of it in the last 7 days, so that
\* every fetch returns the whole of it.
InitTop ==
  /\ tz = 1
  /\ serverProducts = <<>>
  /\ serverTx \in TopLists
  /\ DashboardMounted
  /\ SignedInAt("/dashboard")

NextTop ==
  \/ \E p \in {"7j", "30j"} : setPeriod(p)
  \/ loadTransactionsResolved(serverTx)
  \/ loadTransactionsRejected

SpecTop == InitTop /\ [][NextTop]_vars

(***************************************************************************)
(* Dashboard: the summary cards and the low-stock table.                   *)
(***************************************************************************)

MaxProducts == 3    \* most products the shop has

\* Below this stock a product is reported as low on stock.
LowStockThreshold == 5

Product(id, name, stock, category) ==
  [id |-> id, name |-> name, stock |-> stock, category |-> category]

ShopProducts ==
  { Product("a", "cable", 0, "accessories"),
    Product("b", "phone", 4, ""),
    Product("c", "charger", 5, "accessories"),
    Product("d", "battery", 12, "power") }

\* What the shop has recorded: sales with and without a quantity, and
\* spending records that carry a quantity.
ShopTx ==
  { Tx("Sale", <<"cable">>, <<2>>, 5000, <<2024, 1, 9, 12>>),
    Tx("Sale", <<"phone">>, <<>>, 3000, <<2024, 1, 10, 12>>),
    Tx("Sale", <<"cable">>, <<1>>, 150, <<2024, 1, 10, 13>>),
    Tx("Expense", <<>>, <<3>>, 2000, <<2024, 1, 9, 12>>),
    Tx("Withdrawal", <<>>, <<1>>, 7000, <<2024, 1, 10, 12>>) }

RECURSIVE sumAmounts(_, _)
sumAmounts(txs, i) == IF i > Len(txs) THEN 0 ELSE txs[i].amount + sumAmounts(txs, i + 1)

RECURSIVE sumQuantities(_, _)
sumQuantities(txs, i) ==
  IF i > Len(txs) THEN 0 ELSE OrZero(txs[i].quantity) + sumQuantities(txs, i + 1)

\* GET /api/reports/dashboard: the summary the backend computes.
dashboardReport(txs, catalogue) ==
  LET sales == sumAmounts(SelectSeq(txs, LAMBDA t : t.type = "Sale"), 1)
      expenses == sumAmounts(SelectSeq(txs, LAMBDA t : t.type \in {"Expense", "Withdrawal"}), 1)
  IN  [total_sales |-> sales,
       total_expenses |-> expenses,
       net_profit |-> sales - expenses,
       total_items_sold |-> sumQuantities(SelectSeq(txs, LAMBDA t : t.type = "Sale"), 1),
       total_products |-> Len(catalogue),
       total_transactions |-> Len(txs),
       low_stock_products |-> SelectSeq(catalogue, LAMBDA q : q.stock < LowStockThreshold)]

\* loadDashboard after its await: the call resolved
loadDashboardResolved ==
  /\ loading
  /\ data' = <<dashboardReport(serverTx, serverProducts)>>
  /\ loading' = FALSE
  /\ UNCHANGED <<tz, authVars, now, chartVars, transactions, pending, serverProducts, serverTx,
               pageVars, productVars, formVars>>

\* loadDashboard after its await: the call failed, which is only logged
loadDashboardRejected ==
  /\ loading
  /\ loading' = FALSE
  /\ UNCHANGED <<tz, authVars, now, chartVars, transactions, pending, data, serverProducts, serverTx,
               pageVars, productVars, formVars>>

\* Intl.NumberFormat('fr-FR', {style: 'currency', currency: 'USD'}).format:
\* a sign, the whole dollars and two digits of cents.
formatCurrency(amount) ==
  LET abs == IF amount < 0 THEN -amount ELSE amount
  IN  [minus |-> amount < 0, dollars |-> abs \div 100, cents |-> abs % 100]

\* `data?.field || 0`
fieldOrZero(field) == IF data = <<>> THEN 0 ELSE data[1][field]

\* stats with the net-profit card reading the wrong field
statsWrongField ==
  [totalSales |-> formatCurrency(fieldOrZero("total_sales")),
   totalExpenses |-> formatCurrency(fieldOrZero("total_expenses")),
   netProfit |-> formatCurrency(fieldOrZero("total_sales")),
   itemsSold |-> fieldOrZero("total_items_sold"),
   totalProducts |-> fieldOrZero("total_products"),
   totalTransactions |-> fieldOrZero("total_transactions")]

\* The values of the cards
stats ==
  [totalSales |-> formatCurrency(fieldOrZero("total_sales")),
   totalExpenses |-> formatCurrency(fieldOrZero("total_expenses")),
   netProfit |-> formatCurrency(fieldOrZero("net_profit")),
   itemsSold |-> fieldOrZero("total_items_sold"),
   totalProducts |-> fieldOrZero("total_products"),
   totalTransactions |-> fieldOrZero("total_transactions")]

\* lowStockRows without the products that are out of stock
lowStockRowsInStock ==
  IF data # <<>> /\ Len(data[1].low_stock_products) > 0
  THEN SelectSeq(data[1].low_stock_products, LAMBDA q : q.stock > 0)
  ELSE <<>>

\* The rows of the Low Stock Alert table; the table is rendered only for a
\* loaded summary with at least one low-stock product.
lowStockRows ==
  IF data # <<>> /\ Len(data[1].low_stock_products) > 0
  THEN data[1].low_stock_products
  ELSE <<>>

InitSummary ==
  /\ tz = 1
  /\ serverProducts \in TxLists(ShopProducts, MaxProducts)
  /\ serverTx \in TxLists(ShopTx, MaxTx)
  /\ DashboardMounted
  /\ SignedInAt("/dashboard")

NextSummary ==
  \/ loadDashboardResolved
  \/ loadDashboardRejected

SpecSummary == InitSummary /\ [][NextSummary]_vars

\* The whole Dashboard, summary and charts, of a shop that has nothing and
\* of a shop that has a sale and two products, one of them low on stock.
\* A fetch of the transactions returns those of the shop that fall in the
\* range asked for: none of them or all of them.
InitDashboard ==
  /\ tz \in TimeZones
  /\ serverProducts \in {<<>>, <<Product("b", "phone", 4, ""), Product("d", "battery", 12, "power")>>}
  /\ serverTx \in {<<>>, <<Tx("Sale", <<"phone">>, <<2>>, 250, <<2024, 1, 10, 2>>)>>}
  /\ DashboardMounted
  /\ SignedInAt("/dashboard")

NextDashboard ==
  \/ \E p \in {"7j", "30j", "90j", "custom"} : setPeriod(p)
  \/ \E d \in {<<>>, <<2024, 1, 9>>, <<2024, 1, 11>>} : setCustomFrom(d)
  \/ \E d \in {<<>>, <<2024, 1, 9>>, <<2024, 1, 11>>} : setCustomTo(d)
  \/ \E list \in {<<>>, serverTx} : loadTransactionsResolved(list)
  \/ loadTransactionsRejected
  \/ loadDashboardResolved
  \/ loadDashboardRejected

SpecDashboard == InitDashboard /\ [][NextDashboard]_vars

\* The shop of the scenario: a Sale of 50.00 with quantity 2 and an Expense
\* of 20.00 on one day, a Sale of 30.00 with quantity 1 on the next day; the
\* first day falls in a month, at the end of a year or before a leap day.
ScenarioDays == {<<2024, 1, 9>>, <<2023, 12, 31>>, <<2024, 2, 28>>}
ScenarioHours == {2, 12}

NextDate(d) == CivilFromDays(DaysFromCivil(d[1], d[2], d[3]) + 1)

ScenarioList(day1, hour) ==
  << Tx("Sale", <<"cable">>, <<2>>, 5000, day1 \o <<hour>>),
     Tx("Expense", <<>>, <<>>, 2000, day1 \o <<hour>>),
     Tx("Sale", <<"phone">>, <<1>>, 3000, NextDate(day1) \o <<hour>>) >>

Scenarios == {ScenarioList(day1, hour) : day1 \in ScenarioDays, hour \in ScenarioHours}

\* The two days of the scenario the shop holds.
ScenarioDay1 == SubSeq(serverTx[1].created_at, 1, 3)
ScenarioDay2 == SubSeq(serverTx[3].created_at, 1, 3)

InitScenario ==
  /\ tz \in TimeZones
  /\ serverProducts = <<>>
  /\ serverTx \in Scenarios
  /\ DashboardMounted
  /\ SignedInAt("/dashboard")

NextScenario ==
  \/ \E p \in {"7j", "custom"} : setPeriod(p)
  \/ \E d \in {<<>>, ScenarioDay1, ScenarioDay2} : setCustomFrom(d)
  \/ \E d \in {<<>>, ScenarioDay1, ScenarioDay2} : setCustomTo(d)
  \/ \E list \in {<<>>, serverTx} : loadTransactionsResolved(list)
  \/ loadTransactionsRejected

SpecScenario == InitScenario /\ [][NextScenario]_vars

(***************************************************************************)
(* Transactions page: the filters, the two fetches and the two totals.     *)
(***************************************************************************)

\* A product as the backend returns it; purchase_price is optional.
ShopItem(id, name, purchase_price, selling_price, stock) ==
  [id |-> id, name |-> name, description |-> "", category |-> "",
   purchase_price |-> purchase_price, selling_price |-> selling_price,
   stock |-> stock, image_url |-> ""]

\* The product lists the backend may return: the shop's two products, and
\* the same two after the price and the stock of the first have been changed.
Catalogue ==
  << ShopItem("a", "cable", <<900>>, 1250, 3),
     ShopItem("b", "phone", <<>>, 30000, 0) >>

CatalogueRepriced ==
  << ShopItem("a", "cable", <<900>>, 1500, 2),
     ShopItem("b", "phone", <<>>, 30000, 0) >>

Catalogues == {Catalogue, CatalogueRepriced}

\* The effect on [filterType, dateFrom, dateTo] runs loadTransactions and
\* loadProducts after a render in which one of the three changed; each of
\* the two issues its call at once.
filterEffect ==
  /\ pending < MaxPending
  /\ pending' = pending + 1
  /\ pendingProducts < MaxPending
  /\ pendingProducts' = pendingProducts + 1

\* onClick of a filter button (the page is rendered once loading is false)
setFilterType(type) ==
  /\ ~loading
  /\ type # filterType
  /\ filterType' = type
  /\ filterEffect
  /\ UNCHANGED <<tz, authVars, now, chartVars, transactions, summaryVars, dateFrom, dateTo,
                 products, formVars>>

\* onChange of the two date inputs
setDateFrom(d) ==
  /\ ~loading
  /\ d # dateFrom
  /\ dateFrom' = d
  /\ filterEffect
  /\ UNCHANGED <<tz, authVars, now, chartVars, transactions, summaryVars, filterType, dateTo,
                 products, formVars>>

setDateTo(d) ==
  /\ ~loading
  /\ d # dateTo
  /\ dateTo' = d
  /\ filterEffect
  /\ UNCHANGED <<tz, authVars, now, chartVars, transactions, summaryVars, filterType, dateFrom,
                 products, formVars>>

\* onClick of 'Clear dates', which is there when one of the dates is set
clearDates ==
  /\ ~loading
  /\ dateFrom # <<>> \/ dateTo # <<>>
  /\ dateFrom' = <<>>
  /\ dateTo' = <<>>
  /\ filterEffect
  /\ UNCHANGED <<tz, authVars, now, chartVars, transactions, summaryVars, filterType,
                 products, formVars>>

\* The page's loadTransactions after its await: the call resolved
pageTransactionsResolved(list) ==
  /\ pending > 0
  /\ pending' = pending - 1
  /\ transactions' = list
  /\ loading' = FALSE
  /\ UNCHANGED <<tz, authVars, now, chartVars, data, serverProducts, serverTx, pageVars,
                 productVars, formVars>>

\* The page's loadTransactions after its await: the call failed
pageTransactionsRejected ==
  /\ pending > 0
  /\ pending' = pending - 1
  /\ loading' = FALSE
  /\ UNCHANGED <<tz, authVars, now, chartVars, transactions, data, serverProducts, serverTx,
                 pageVars, productVars, formVars>>

\* The page's loadProducts after its await: the call resolved
loadProductsResolved(list) ==
  /\ pendingProducts > 0
  /\ pendingProducts' = pendingProducts - 1
  /\ products' = list
  /\ UNCHANGED <<tz, authVars, now, chartVars, transactions, pending, summaryVars, pageVars, formVars>>

\* The page's loadProducts after its await: the call failed, which is only
\* logged
loadProductsRejected ==
  /\ pendingProducts > 0
  /\ pendingProducts' = pendingProducts - 1
  /\ UNCHANGED <<tz, authVars, now, chartVars, transactions, pending, summaryVars, pageVars,
                 products, formVars>>

\* the two totals without their filter on the type
totalSalesAmountAll == sumAmounts(transactions, 1)
totalItemsSoldAll == sumQuantities(transactions, 1)

\* totalSalesAmount recomputed from the price the product list gives
totalSalesAmountAtListPrice ==
  LET sales == SelectSeq(transactions, LAMBDA t : t.type = "Sale")
      listed(t) == SelectSeq(products, LAMBDA p : t.product # <<>> /\ p.name = t.product[1])
      atListPrice(t) == IF listed(t) = <<>> THEN t.amount
                        ELSE listed(t)[1].selling_price * OrZero(t.quantity)
  IN  sumAmounts([i \in 1..Len(sales) |-> [sales[i] EXCEPT !.amount = atListPrice(sales[i])]], 1)

totalSalesAmount == sumAmounts(SelectSeq(transactions, LAMBDA t : t.type = "Sale"), 1)

totalItemsSold == sumQuantities(SelectSeq(transactions, LAMBDA t : t.type = "Sale"), 1)

\* new Date(created_at).toLocaleDateString('fr-FR', {year, month: 'long',
\* day}): the text of the local calendar day ('10 janvier 2024'), kept as
\* the <<y, m, d>> of that day.
toLocaleDateString(created_at) ==
  CivilFromDays(LocalDays(ParseTimestamp(created_at)))

\* The reduce of salesByDate: one DailySales entry per day text.
RECURSIVE salesByDateFrom(_, _, _)
salesByDateFrom(acc, sales, i) ==
  IF i > Len(sales) THEN acc
  ELSE LET t == sales[i]
           date == toLocaleDateString(t.created_at)
           old == IF HasKey(acc, date) THEN Get(acc, date)
                  ELSE [date |-> date, totalAmount |-> 0, totalItems |-> 0, count |-> 0]
           new == [old EXCEPT !.totalAmount = @ + t.amount,
                              !.totalItems = @ + OrZero(t.quantity),
                              !.count = @ + 1]
       IN  salesByDateFrom(Put(acc, date, new), sales, i + 1)

\* salesByDate without its filter on the type
salesByDateOfEveryType == salesByDateFrom(<<>>, transactions, 1)

salesByDate ==
  salesByDateFrom(<<>>, SelectSeq(transactions, LAMBDA t : t.type = "Sale"), 1)

\* Object.values(salesByDate).sort(...).  The comparator parses the day
\* texts with new Date, which gives Invalid Date for a French text, so it
\* returns NaN for every pair and the order is left to the engine; the
\* entries are kept here in the order of insertion and nothing below
\* depends on their order.
salesByDateList == [i \in 1..Len(salesByDate) |-> salesByDate[i][2]]

\* The fields of the new-transaction form as the page starts with them and
\* as handleOpenModal resets them; a text field is the sequence of its
\* characters.
NewTransactionForm ==
  [type |-> "Sale", product_id |-> "", quantity |-> <<>>, amount |-> <<>>, comment |-> ""]

\* The page once mounted: its first two fetches are in flight.
TransactionsMounted ==
  /\ now = Now0
  /\ period = "30j"
  /\ customFrom = <<>>
  /\ customTo = <<>>
  /\ transactions = <<>>
  /\ pending = 1
  /\ data = <<>>
  /\ loading = TRUE
  /\ serverProducts = <<>>
  /\ serverTx = <<>>
  /\ filterType = ""
  /\ dateFrom = <<>>
  /\ dateTo = <<>>
  /\ products = <<>>
  /\ pendingProducts = 1
  /\ showModal = FALSE
  /\ error = ""
  /\ formData = NewTransactionForm
  /\ editingProduct = <<>>
  /\ isSuperAdmin = FALSE
  /\ search = ""
  /\ requests = EmptyBag

InitPage ==
  /\ tz = 1
  /\ TransactionsMounted
  /\ SignedInAt("/transactions")

NextPage ==
  \/ \E type \in {"", "Sale", "Expense", "Withdrawal"} : setFilterType(type)
  \/ \E d \in DateChoices \cup {<<>>} : setDateFrom(d)
  \/ \E d \in DateChoices \cup {<<>>} : setDateTo(d)
  \/ clearDates
  \/ \E list \in TxLists(ShopTx, MaxTx) : pageTransactionsResolved(list)
  \/ pageTransactionsRejected
  \/ \E list \in Catalogues : loadProductsResolved(list)
  \/ loadProductsRejected

SpecPage == InitPage /\ [][NextPage]_vars

\* The same page without its date filters and with the Dashboard's charts
\* of the last seven days drawn from the same list: what the aggregates
\* show while the product list changes.
InitAggregates ==
  /\ tz = 1
  /\ now = Now0
  /\ period = "7j"
  /\ customFrom = <<>>
  /\ customTo = <<>>
  /\ transactions = <<>>
  /\ pending = 1
  /\ data = <<>>
  /\ loading = TRUE
  /\ serverProducts = <<>>
  /\ serverTx = <<>>
  /\ filterType = ""
  /\ dateFrom = <<>>
  /\ dateTo = <<>>
  /\ products = <<>>
  /\ pendingProducts = 1
  /\ showModal = FALSE
  /\ error = ""
  /\ formData = NewTransactionForm
  /\ editingProduct = <<>>
  /\ isSuperAdmin = FALSE
  /\ search = ""
  /\ requests = EmptyBag
  /\ SignedInAt("/transactions")

NextAggregates ==
  \/ \E type \in {"", "Sale", "Expense", "Withdrawal"} : setFilterType(type)
  \/ \E list \in TxLists(ShopTx, MaxTx) : pageTransactionsResolved(list)
  \/ pageTransactionsRejected
  \/ \E list \in Catalogues : loadProductsResolved(list)
  \/ loadProductsRejected

SpecAggregates == InitAggregates /\ [][NextAggregates]_vars

(***************************************************************************)
(* Transactions page: the new-transaction modal.                           *)
(***************************************************************************)

MaxRequests == 1    \* most createTransaction calls in flight at once

\* What is typed in the quantity, amount and comment fields.  '1e1' and
\* '.5e1' are numbers to a number input: ten and five.
QuantityTexts == {<<>>, <<"2">>, <<"1", "e", "1">>, <<".", "5", "e", "1">>}
AmountTexts == {<<>>, <<"7", ".", "5">>}
CommentTexts == {"", "rent"}

\* The message of a createTransaction that the backend refused:
\* error.error || 'Failed to create transaction'; the backend's own text
\* is one more text of the same kind.
ServerMessages == {"Failed to create transaction"}

\* products.find((p) => p.id === productId), undefined when there is none
findProduct(productId) ==
  LET hits == SelectSeq(products, LAMBDA p : p.id = productId)
  IN  IF hits = <<>> THEN <<>> ELSE <<hits[1]>>

\* price * n, where n may be NaN
Times(price, n) == IF n.nan THEN NaN ELSE Num(price * n.v)

\* onClick of 'New Transaction'
handleOpenModal ==
  /\ ~loading
  /\ formData' = NewTransactionForm
  /\ error' = ""
  /\ showModal' = TRUE
  /\ UNCHANGED <<tz, authVars, now, chartVars, transactions, pending, summaryVars, pageVars,
                 productVars, editingProduct, isSuperAdmin, search, requests>>

\* onClick of the modal's X and of 'Cancel'
handleCloseModal ==
  /\ ~loading
  /\ showModal
  /\ showModal' = FALSE
  /\ error' = ""
  /\ UNCHANGED <<tz, authVars, now, chartVars, transactions, pending, summaryVars, pageVars,
                 productVars, formData, editingProduct, isSuperAdmin, search, requests>>

\* What an edit of the form leaves alone.
formEdit ==
  /\ ~loading
  /\ showModal
  /\ UNCHANGED <<tz, authVars, now, chartVars, transactions, pending, summaryVars, pageVars,
                 productVars, showModal, error, editingProduct, isSuperAdmin, search,
                 requests>>

\* onChange of the type select
setType(type) ==
  /\ type # formData.type
  /\ formData' = [formData EXCEPT !.type = type, !.amount = <<>>,
                                  !.product_id = "", !.quantity = <<>>]
  /\ formEdit

\* onChange of the product select, which is there for a Sale and offers ''
\* and the products of the list
handleProductChange(productId) ==
  /\ formData.type = "Sale"
  /\ productId # formData.product_id
  /\ productId = "" \/ findProduct(productId) # <<>>
  /\ LET product == findProduct(productId)
     IN  IF product # <<>> /\ formData.quantity # <<>>
         THEN formData' =
                [formData EXCEPT !.product_id = productId,
                                 !.amount = NumberToString(Times(product[1].selling_price,
                                                                 parseInt(formData.quantity)))]
         ELSE formData' = [formData EXCEPT !.product_id = productId]
  /\ formEdit

\* onChange of the quantity input, which is there for a Sale
handleQuantityChange(quantity) ==
  /\ formData.type = "Sale"
  /\ quantity # formData.quantity
  /\ LET product == findProduct(formData.product_id)
     IN  IF product # <<>> /\ quantity # <<>>
         THEN formData' =
                [formData EXCEPT !.quantity = quantity,
                                 !.amount = NumberToString(Times(product[1].selling_price,
                                                                 parseInt(quantity)))]
         ELSE formData' = [formData EXCEPT !.quantity = quantity]
  /\ formEdit

\* onChange of the amount input and of the comment
setAmount(text) ==
  /\ text # formData.amount
  /\ formData' = [formData EXCEPT !.amount = text]
  /\ formEdit

setComment(text) ==
  /\ text # formData.comment
  /\ formData' = [formData EXCEPT !.comment = text]
  /\ formEdit

\* Is the text a valid floating-point number, as a number input wants it:
\* an optional '-', digits or a point followed by digits or both, and an
\* optional exponent?  The value of the input is '' when its text is not.
IsNumberText(s) ==
  LET signed == s # <<>> /\ s[1] = "-"
      body == IF signed THEN Tail(s) ELSE s
      n1 == LeadingDigits(body)
      rest1 == SubSeq(body, n1 + 1, Len(body))
      point == rest1 # <<>> /\ rest1[1] = "."
      frac == IF point THEN Tail(rest1) ELSE <<>>
      n2 == LeadingDigits(frac)
      rest2 == IF point THEN SubSeq(frac, n2 + 1, Len(frac)) ELSE rest1
  IN  /\ n1 + n2 > 0
      /\ point => n2 > 0
      /\ IF rest2 = <<>> THEN TRUE
         ELSE /\ rest2[1] \in {"e", "E"}
              /\ Len(rest2) > 1
              /\ LeadingDigits(Tail(rest2)) = Len(rest2) - 1

\* The constraints the browser checks before it fires the submit event:
\* the product and the quantity (min 1, step 1) of a Sale are required, the
\* amount (min 0, step 0.01) is required.
checkValidity ==
  /\ formData.type = "Sale" =>
       /\ formData.product_id # ""
       /\ findProduct(formData.product_id) # <<>>
       /\ IsNumberText(formData.quantity)
       /\ parseFloat(formData.quantity).v >= 100
       /\ parseFloat(formData.quantity).v % 100 = 0
  /\ IsNumberText(formData.amount)
  /\ parseFloat(formData.amount).v >= 0

\* createTransactionData with the product and the quantity of the form
\* attached whatever the type
createTransactionDataOfAnyType ==
  [type |-> formData.type,
   amount |-> parseFloat(formData.amount),
   comment |-> IF formData.comment = "" THEN <<>> ELSE <<formData.comment>>,
   product_id |-> <<formData.product_id>>,
   quantity |-> <<parseInt(formData.quantity)>>]

\* The data handleSubmit hands to createTransaction, as JSON.stringify
\* writes it: a field that is undefined is left out (<<>>).
createTransactionData ==
  LET body == [type |-> formData.type,
               amount |-> parseFloat(formData.amount),
               comment |-> IF formData.comment = "" THEN <<>> ELSE <<formData.comment>>,
               product_id |-> <<>>,
               quantity |-> <<>>]
  IN  IF formData.type = "Sale"
      THEN [body EXCEPT !.product_id = <<formData.product_id>>,
                        !.quantity = <<parseInt(formData.quantity)>>]
      ELSE body

\* handleSubmit without its test of the product and the quantity
handleSubmitOfAnySale ==
  /\ ~loading
  /\ showModal
  /\ BagCardinality(requests) < MaxRequests
  /\ error' = ""
  /\ requests' = requests (+) SetToBag({createTransactionData})
  /\ UNCHANGED <<tz, authVars, now, chartVars, transactions, pending, summaryVars, pageVars,
                 productVars, showModal, formData, editingProduct, isSuperAdmin, search>>

\* handleSubmit, up to its await
handleSubmit ==
  /\ ~loading
  /\ showModal
  /\ IF formData.type = "Sale" /\ (formData.product_id = "" \/ formData.quantity = <<>>)
     THEN /\ error' = "Product and quantity are required for sales"
          /\ requests' = requests
     ELSE /\ BagCardinality(requests) < MaxRequests
          /\ error' = ""
          /\ requests' = requests (+) SetToBag({createTransactionData})
  /\ UNCHANGED <<tz, authVars, now, chartVars, transactions, pending, summaryVars, pageVars,
                 productVars, showModal, formData, editingProduct, isSuperAdmin, search>>

\* onSubmit of the form: the browser fires it when the constraints hold
onSubmit == checkValidity /\ handleSubmit

\* The calls in flight without one of them that has settled.
Settled(call) == requests (-) SetToBag({call})

\* handleSubmit after its await, the call resolved: handleCloseModal(),
\* loadTransactions(), loadProducts()
createTransactionResolved(call) ==
  /\ BagIn(call, requests)
  /\ requests' = Settled(call)
  /\ showModal' = FALSE
  /\ error' = ""
  /\ pending < MaxPending
  /\ pending' = pending + 1
  /\ pendingProducts < MaxPending
  /\ pendingProducts' = pendingProducts + 1
  /\ UNCHANGED <<tz, authVars, now, chartVars, transactions, summaryVars, pageVars, products,
                 formData, editingProduct, isSuperAdmin, search>>

\* handleSubmit after its await, the call failed: the catch sets the error
createTransactionRejected(call, message) ==
  /\ BagIn(call, requests)
  /\ requests' = Settled(call)
  /\ error' = message
  /\ UNCHANGED <<tz, authVars, now, chartVars, transactions, pending, summaryVars, pageVars,
                 productVars, showModal, formData, editingProduct, isSuperAdmin, search>>

\* The one sale and the one product the backend has while the modal is
\* looked at.
FormSales == <<Tx("Sale", <<"cable">>, <<2>>, 2500, <<2024, 1, 10, 9>>)>>
FormProducts == <<Catalogue[1]>>

\* The page once its first two fetches have resolved.
TransactionsLoaded ==
  /\ now = Now0
  /\ period = "30j"
  /\ customFrom = <<>>
  /\ customTo = <<>>
  /\ transactions = FormSales
  /\ pending = 0
  /\ data = <<>>
  /\ loading = FALSE
  /\ serverProducts = <<>>
  /\ serverTx = <<>>
  /\ filterType = ""
  /\ dateFrom = <<>>
  /\ dateTo = <<>>
  /\ products = FormProducts
  /\ pendingProducts = 0
  /\ showModal = FALSE
  /\ error = ""
  /\ formData = NewTransactionForm
  /\ editingProduct = <<>>
  /\ isSuperAdmin = FALSE
  /\ search = ""
  /\ requests = EmptyBag

InitForm ==
  /\ tz = 1
  /\ TransactionsLoaded
  /\ SignedInAt("/transactions")

NextForm ==
  \/ handleOpenModal
  \/ handleCloseModal
  \/ \E type \in {"Sale", "Expense", "Withdrawal"} : setType(type)
  \/ \E productId \in {"", "a"} : handleProductChange(productId)
  \/ \E quantity \in QuantityTexts : handleQuantityChange(quantity)
  \/ \E text \in AmountTexts : setAmount(text)
  \/ \E text \in CommentTexts : setComment(text)
  \/ onSubmit
  \/ \E call \in BagToSet(requests) : createTransactionResolved(call)
  \/ \E call \in BagToSet(requests), message \in ServerMessages :
       createTransactionRejected(call, message)
  \/ pageTransactionsResolved(FormSales)
  \/ pageTransactionsRejected
  \/ loadProductsResolved(FormProducts)
  \/ loadProductsRejected

SpecForm == InitForm /\ [][NextForm]_vars

\* The same modal when the submit event reaches handleSubmit without the
\* browser having checked the constraints (a form submitted by a script
\* or a test).
NextSubmit ==
  \/ handleOpenModal
  \/ handleCloseModal
  \/ \E type \in {"Sale", "Expense", "Withdrawal"} : setType(type)
  \/ \E productId \in {"", "a"} : handleProductChange(productId)
  \/ \E quantity \in {<<>>, <<"2">>} : handleQuantityChange(quantity)
  \/ handleSubmit
  \/ \E call \in BagToSet(requests) : createTransactionResolved(call)
  \/ \E call \in BagToSet(requests), message \in ServerMessages :
       createTransactionRejected(call, message)
  \/ pageTransactionsResolved(FormSales)
  \/ pageTransactionsRejected
  \/ loadProductsResolved(FormProducts)
  \/ loadProductsRejected

SpecSubmit == InitForm /\ [][NextSubmit]_vars

(***************************************************************************)
(* Products page: the list, the search and the add / edit modal.           *)
(***************************************************************************)

\* The fields of the product form as the page starts with them and as
\* handleOpenModal() resets them.
NewProductForm ==
  [name |-> "", description |-> "", category |-> "", purchase_price |-> <<>>,
   selling_price |-> <<>>, stock |-> <<>>, image_url |-> ""]

\* n.toString() of a stock, a natural number
IntegerToString(n) == DigitsOf(n)

\* The form filled from a product: purchase_price?.toString() || ''
ProductFormOf(product) ==
  [name |-> product.name,
   description |-> product.description,
   category |-> product.category,
   purchase_price |-> IF product.purchase_price = <<>> THEN <<>>
                      ELSE NumberToString(Num(product.purchase_price[1])),
   selling_price |-> NumberToString(Num(product.selling_price)),
   stock |-> IntegerToString(product.stock),
   image_url |-> product.image_url]

\* What getProducts may return: the backend is not part of the program, its
\* answer comes with or without the purchase price.
ProductLists ==
  { <<Catalogue[1]>>, <<[Catalogue[1] EXCEPT !.purchase_price = <<>>]>> }

\* What is typed in the search field and in the fields of the form; the
\* description, the category and the image address stay as the form was
\* opened with them.
SearchTexts == {"", "ca"}
ProductFields == {"name", "purchase_price", "selling_price", "stock"}
ProductFieldTexts(field) ==
  IF field = "name" THEN {"", "lamp"}
  ELSE IF field = "purchase_price" THEN {<<>>, <<"9">>}
  ELSE IF field = "selling_price" THEN {<<>>, <<"1", "2", ".", "5">>}
  ELSE {<<>>, <<"3">>}

\* The effect on [search] runs loadProducts, which issues its call at once.
searchEffect ==
  /\ pendingProducts < MaxPending
  /\ pendingProducts' = pendingProducts + 1

\* onChange of the search field (the page is rendered once loading is false)
setSearch(text) ==
  /\ ~loading
  /\ text # search
  /\ search' = text
  /\ searchEffect
  /\ UNCHANGED <<tz, authVars, now, chartVars, transactions, pending, summaryVars, pageVars,
                 products, showModal, error, formData, editingProduct, isSuperAdmin,
                 requests>>

\* The Products page's loadProducts after its await: the call resolved
productsLoadResolved(list) ==
  /\ pendingProducts > 0
  /\ pendingProducts' = pendingProducts - 1
  /\ products' = list
  /\ loading' = FALSE
  /\ UNCHANGED <<tz, authVars, now, chartVars, transactions, pending, data, serverProducts,
                 serverTx, pageVars, formVars>>

\* The Products page's loadProducts after its await: the call failed
productsLoadRejected ==
  /\ pendingProducts > 0
  /\ pendingProducts' = pendingProducts - 1
  /\ loading' = FALSE
  /\ UNCHANGED <<tz, authVars, now, chartVars, transactions, pending, data, serverProducts,
                 serverTx, pageVars, products, formVars>>

\* handleOpenModal(product): onClick of 'Add Product' (no product, <<>>)
\* and of the 'Edit' of a card
productsHandleOpenModal(product) ==
  /\ ~loading
  /\ editingProduct' = product
  /\ formData' = IF product = <<>> THEN NewProductForm ELSE ProductFormOf(product[1])
  /\ error' = ""
  /\ showModal' = TRUE
  /\ UNCHANGED <<tz, authVars, now, chartVars, transactions, pending, summaryVars, pageVars,
                 productVars, isSuperAdmin, search, requests>>

\* handleCloseModal of the Products page
productsHandleCloseModal ==
  /\ ~loading
  /\ showModal
  /\ showModal' = FALSE
  /\ editingProduct' = <<>>
  /\ error' = ""
  /\ UNCHANGED <<tz, authVars, now, chartVars, transactions, pending, summaryVars, pageVars,
                 productVars, formData, isSuperAdmin, search, requests>>

\* onChange of a field of the product form
setProductField(field, text) ==
  /\ ~loading
  /\ showModal
  /\ text # formData[field]
  /\ formData' = [formData EXCEPT ![field] = text]
  /\ UNCHANGED <<tz, authVars, now, chartVars, transactions, pending, summaryVars, pageVars,
                 productVars, showModal, error, editingProduct, isSuperAdmin, search,
                 requests>>

\* The constraints of the product form: the name is required, the stock
\* (min 0, step 1) and the two prices (min 0, step 0.01) are required.
productCheckValidity ==
  /\ formData.name # ""
  /\ IsNumberText(formData.stock)
  /\ parseFloat(formData.stock).v >= 0
  /\ parseFloat(formData.stock).v % 100 = 0
  /\ IsNumberText(formData.purchase_price)
  /\ parseFloat(formData.purchase_price).v >= 0
  /\ IsNumberText(formData.selling_price)
  /\ parseFloat(formData.selling_price).v >= 0

\* productCall without its test of editingProduct
productCallOfNewProduct ==
  [call |-> "createProduct", id |-> <<>>,
   data |-> <<[name |-> formData.name,
               description |-> formData.description,
               category |-> formData.category,
               purchase_price |-> parseFloat(formData.purchase_price),
               selling_price |-> parseFloat(formData.selling_price),
               stock |-> parseInt(formData.stock),
               image_url |-> formData.image_url]>>]

\* The call handleSubmit of the Products page issues: updateProduct for
\* the product the modal was opened on, createProduct when there is none.
productCall ==
  LET body == [name |-> formData.name,
               description |-> formData.description,
               category |-> formData.category,
               purchase_price |-> parseFloat(formData.purchase_price),
               selling_price |-> parseFloat(formData.selling_price),
               stock |-> parseInt(formData.stock),
               image_url |-> formData.image_url]
  IN  IF editingProduct # <<>>
      THEN [call |-> "updateProduct", id |-> <<editingProduct[1].id>>, data |-> <<body>>]
      ELSE [call |-> "createProduct", id |-> <<>>, data |-> <<body>>]

\* handleSubmit of the Products page, up to its await
productsHandleSubmit ==
  /\ ~loading
  /\ showModal
  /\ BagCardinality(requests) < MaxRequests
  /\ error' = ""
  /\ requests' = requests (+) SetToBag({productCall})
  /\ UNCHANGED <<tz, authVars, now, chartVars, transactions, pending, summaryVars, pageVars,
                 productVars, showModal, formData, editingProduct, isSuperAdmin, search>>

\* onSubmit of the product form
productsOnSubmit == productCheckValidity /\ productsHandleSubmit

\* handleSubmit after its await, the call resolved: handleCloseModal() and
\* loadProducts()
productSaved(call) ==
  /\ BagIn(call, requests)
  /\ call.call \in {"createProduct", "updateProduct"}
  /\ requests' = Settled(call)
  /\ showModal' = FALSE
  /\ editingProduct' = <<>>
  /\ error' = ""
  /\ searchEffect
  /\ UNCHANGED <<tz, authVars, now, chartVars, transactions, pending, summaryVars, pageVars,
                 products, formData, isSuperAdmin, search>>

\* handleSubmit after its await, the call failed: the message of the error
\* productApi throws
productNotSaved(call) ==
  /\ BagIn(call, requests)
  /\ call.call \in {"createProduct", "updateProduct"}
  /\ requests' = Settled(call)
  /\ error' = IF call.call = "createProduct" THEN "Failed to create product"
              ELSE "Failed to update product"
  /\ UNCHANGED <<tz, authVars, now, chartVars, transactions, pending, summaryVars, pageVars,
                 productVars, showModal, formData, editingProduct, isSuperAdmin, search>>

\* handleDelete(id), up to its await, when the question is confirmed
productsHandleDelete(id) ==
  /\ ~loading
  /\ \E i \in 1..Len(products) : products[i].id = id
  /\ BagCardinality(requests) < MaxRequests
  /\ requests' = requests (+) SetToBag({[call |-> "deleteProduct", id |-> <<id>>, data |-> <<>>]})
  /\ UNCHANGED <<tz, authVars, now, chartVars, transactions, pending, summaryVars, pageVars,
                 productVars, showModal, error, formData, editingProduct, isSuperAdmin,
                 search>>

\* handleDelete after its await: loadProducts() when the call resolved, an
\* alert when it failed
productDeleted(call) ==
  /\ BagIn(call, requests)
  /\ call.call = "deleteProduct"
  /\ requests' = Settled(call)
  /\ searchEffect
  /\ UNCHANGED <<tz, authVars, now, chartVars, transactions, pending, summaryVars, pageVars,
                 products, showModal, error, formData, editingProduct, isSuperAdmin,
                 search>>

productNotDeleted(call) ==
  /\ BagIn(call, requests)
  /\ call.call = "deleteProduct"
  /\ requests' = Settled(call)
  /\ UNCHANGED <<tz, authVars, now, chartVars, transactions, pending, summaryVars, pageVars,
                 productVars, showModal, error, formData, editingProduct, isSuperAdmin,
                 search>>

\* What a card shows of the purchase price of its product (nothing: <<>>)
cardPurchasePrice(product) ==
  IF isSuperAdmin /\ product.purchase_price # <<>>
  THEN <<ToFixed2(Num(product.purchase_price[1]))>>
  ELSE <<>>

\* What the purchase-price input of the modal shows (no modal: <<>>)
modalPurchasePrice == IF showModal THEN <<formData.purchase_price>> ELSE <<>>

\* The page once mounted, for a user of either role: its first fetch is in
\* flight.
ProductsMounted ==
  /\ now = Now0
  /\ period = "30j"
  /\ customFrom = <<>>
  /\ customTo = <<>>
  /\ transactions = <<>>
  /\ pending = 0
  /\ data = <<>>
  /\ loading = TRUE
  /\ serverProducts = <<>>
  /\ serverTx = <<>>
  /\ filterType = ""
  /\ dateFrom = <<>>
  /\ dateTo = <<>>
  /\ products = <<>>
  /\ pendingProducts = 1
  /\ showModal = FALSE
  /\ error = ""
  /\ formData = NewProductForm
  /\ editingProduct = <<>>
  /\ search = ""
  /\ requests = EmptyBag

InitProducts ==
  /\ tz = 1
  /\ isSuperAdmin \in BOOLEAN
  /\ ProductsMounted
  /\ SignedInAt("/products")

NextProducts ==
  \/ \E text \in SearchTexts : setSearch(text)
  \/ \E list \in ProductLists : productsLoadResolved(list)
  \/ productsLoadRejected
  \/ productsHandleOpenModal(<<>>)
  \/ \E i \in 1..Len(products) : productsHandleOpenModal(<<products[i]>>)
  \/ productsHandleCloseModal
  \/ \E field \in ProductFields : \E text \in ProductFieldTexts(field) :
       setProductField(field, text)
  \/ productsOnSubmit
  \/ \E call \in BagToSet(requests) : productSaved(call)
  \/ \E call \in BagToSet(requests) : productNotSaved(call)
  \/ \E i \in 1..Len(products) : productsHandleDelete(products[i].id)
  \/ \E call \in BagToSet(requests) : productDeleted(call)
  \/ \E call \in BagToSet(requests) : productNotDeleted(call)

SpecProducts == InitProducts /\ [][NextProducts]_vars

(***************************************************************************)
(* The api module: which request each operation sends.  A request is the   *)
(* record of the operation, of the HTTP method and of the Authorization    *)
(* header (missing, or the text 'Bearer ' followed by the token).          *)
(***************************************************************************)

\* The values the item 'token' of localStorage takes (null when missing).
Tokens == {<<>>, <<"t1">>, <<"t2">>}

\* getAuthHeader without its read of the stored token
getAuthHeaderOfNoToken == <<>>

\* getAuthHeader: the header of the stored token, none when the item is
\* missing or is the empty text.
getAuthHeader ==
  IF token # <<>> /\ token[1] # "" THEN <<"Bearer ", token[1]>> ELSE <<>>

\* The operations by the object that exports them.
authApi == {"register", "login"}
\* shopApi, uploadApi, productApi, transactionApi, userApi and reportApi
backOfficeApi == {"getShop", "updateWhatsApp", "uploadImage", "getProducts",
                  "getProduct", "createProduct", "updateProduct",
                  "deleteProduct", "getTransactions", "createTransaction",
                  "getUsers", "createUser", "deleteUser", "getDashboard"}
publicApi == {"getPublicProducts", "getWhatsAppLink"}

\* The method of an operation's fetch (GET when the options name none).
methodOf(operation) ==
  CASE operation \in {"register", "login", "uploadImage", "createProduct",
                      "createTransaction", "createUser"} -> "POST"
    [] operation \in {"updateWhatsApp", "updateProduct"} -> "PUT"
    [] operation \in {"deleteProduct", "deleteUser"} -> "DELETE"
    [] OTHER -> "GET"

\* The Authorization header of an operation's fetch: the operations of
\* authApi and of publicApi build their headers without getAuthHeader.
authorizationOf(operation) ==
  IF operation \in authApi \cup publicApi THEN <<>> ELSE getAuthHeader

\* The request an operation sends when it is called now.
apiFetch(operation) ==
  [call |-> operation, method |-> methodOf(operation),
   Authorization |-> authorizationOf(operation)]

\* An operation is called: its request is in flight.
apiCall(operation) ==
  /\ BagCardinality(requests) < MaxRequests
  /\ requests' = requests (+) SetToBag({apiFetch(operation)})
  /\ UNCHANGED <<tz, now, chartVars, transactions, pending, summaryVars, pageVars,
                 productVars, showModal, error, formData, editingProduct,
                 isSuperAdmin, search, authVars>>

\* The response to a request arrives.
apiSettled(call) ==
  /\ BagIn(call, requests)
  /\ requests' = Settled(call)
  /\ UNCHANGED <<tz, now, chartVars, transactions, pending, summaryVars, pageVars,
                 productVars, showModal, error, formData, editingProduct,
                 isSuperAdmin, search, authVars>>

\* The stored item changes (a sign-in, a sign-out, another tab).
storageChanged(item) ==
  /\ item # token
  /\ token' = item
  /\ UNCHANGED <<tz, now, chartVars, transactions, pending, summaryVars, pageVars,
                 productVars, formVars, user, isLoading, history>>

\* No page of the back office is mounted.
NoPage ==
  /\ tz = 1
  /\ now = Now0
  /\ period = "30j"
  /\ customFrom = <<>>
  /\ customTo = <<>>
  /\ transactions = <<>>
  /\ pending = 0
  /\ data = <<>>
  /\ loading = TRUE
  /\ serverProducts = <<>>
  /\ serverTx = <<>>
  /\ filterType = ""
  /\ dateFrom = <<>>
  /\ dateTo = <<>>
  /\ products = <<>>
  /\ pendingProducts = 0
  /\ showModal = FALSE
  /\ error = ""
  /\ formData = <<>>
  /\ editingProduct = <<>>
  /\ search = ""
  /\ requests = EmptyBag

\* A browser that has nothing stored, on the login page.
InitApi ==
  /\ NoPage
  /\ token = <<>>
  /\ user = <<>>
  /\ isSuperAdmin = FALSE
  /\ isLoading = FALSE
  /\ history = <<"/login">>

NextApi ==
  \/ \E operation \in authApi \cup backOfficeApi \cup publicApi : apiCall(operation)
  \/ \E call \in BagToSet(requests) : apiSettled(call)
  \/ \E item \in Tokens : storageChanged(item)

SpecApi == InitApi /\ [][NextApi]_vars

(***************************************************************************)
(* The router: what each path renders for each value of useAuth().  The    *)
(* variable history is the path that was requested followed by the paths   *)
(* the router has redirected to since (each Navigate replaces the entry    *)
(* of the browser's history; the model keeps the chain).                   *)
(***************************************************************************)

MaxHistory == 6     \* longest chain of paths the model follows

\* The paths a visitor asks for: those of the routes, with two public
\* shops, and two paths that no route names.
ShopPaths == {"/shop/s1", "/shop/s2"}
Paths == {"/login", "/register", "/dashboard", "/products", "/transactions",
          "/users", "/settings", "/", "/nowhere", "/products/p1"}
         \cup ShopPaths

\* The users useAuth() delivers.
Users == {<<>>, <<[role |-> "Admin"]>>, <<[role |-> "SuperAdmin"]>>}

\* What a route renders: a redirect, or a page (the spinner included).
Navigate(to) == [element |-> "Navigate", to |-> to]
Element(name) == [element |-> name, to |-> ""]

\* ProtectedRoute without its test of the user
ProtectedRouteOfAnyone(children) ==
  IF isLoading THEN Element("spinner") ELSE children

ProtectedRoute(children) ==
  IF isLoading THEN Element("spinner")
  ELSE IF user = <<>> THEN Navigate("/login")
  ELSE children

\* SuperAdminRoute sending the other users back to the dashboard
SuperAdminRouteToDashboard(children) ==
  IF isLoading THEN Element("spinner")
  ELSE IF user = <<>> THEN Navigate("/login")
  ELSE IF ~isSuperAdmin THEN Navigate("/dashboard")
  ELSE children

SuperAdminRoute(children) ==
  IF isLoading THEN Element("spinner")
  ELSE IF user = <<>> THEN Navigate("/login")
  ELSE IF ~isSuperAdmin THEN Navigate("/products")
  ELSE children

\* The element of the first route that matches the path.
AppRoutes(path) ==
  CASE path = "/login" ->
         IF user # <<>> THEN Navigate("/dashboard") ELSE Element("Login")
    [] path = "/register" ->
         IF user # <<>> THEN Navigate("/dashboard") ELSE Element("Register")
    [] path \in ShopPaths -> Element("PublicShop")
    [] path = "/dashboard" -> SuperAdminRoute(Element("Dashboard"))
    [] path = "/products" -> ProtectedRoute(Element("Products"))
    [] path = "/transactions" -> ProtectedRoute(Element("Transactions"))
    [] path = "/users" -> SuperAdminRoute(Element("Users"))
    [] path = "/settings" -> SuperAdminRoute(Element("Settings"))
    [] path = "/" -> Navigate(IF user # <<>> THEN "/dashboard" ELSE "/login")
    [] OTHER -> Navigate("/")

\* The path the router is at, and what it renders there.
location == history[Len(history)]
rendered == AppRoutes(location)

\* The visitor asks for a path (an address typed, a link followed).
request(path) ==
  /\ history' = <<path>>
  /\ UNCHANGED <<tz, now, chartVars, transactions, pending, summaryVars, pageVars,
                 productVars, formVars, token, user, isLoading>>

\* The rendered Navigate takes the router to its target.
redirect ==
  /\ rendered.element = "Navigate"
  /\ Len(history) < MaxHistory
  /\ history' = Append(history, rendered.to)
  /\ UNCHANGED <<tz, now, chartVars, transactions, pending, summaryVars, pageVars,
                 productVars, formVars, token, user, isLoading>>

\* useAuth() delivers a new value (the stored session has been read, a
\* sign-in, a sign-out); isSuperAdmin is true of a user of that role.  The
\* chain of redirects starts again at the current path.
authChanged(newUser, newIsLoading) ==
  /\ <<newUser, newIsLoading>> # <<user, isLoading>>
  /\ user' = newUser
  /\ isLoading' = newIsLoading
  /\ isSuperAdmin' = (newUser # <<>> /\ newUser[1].role = "SuperAdmin")
  /\ history' = <<location>>
  /\ UNCHANGED <<tz, now, chartVars, transactions, pending, summaryVars, pageVars,
                 productVars, showModal, error, formData, editingProduct,
                 search, requests, token>>

\* The application is opened at its root: the session is being read, no
\* user yet.
InitRoutes ==
  /\ NoPage
  /\ token = <<>>
  /\ user = <<>>
  /\ isSuperAdmin = FALSE
  /\ isLoading = TRUE
  /\ history = <<"/">>

NextRoutes ==
  \/ \E path \in Paths : request(path)
  \/ redirect
  \/ \E newUser \in Users, newIsLoading \in BOOLEAN :
       authChanged(newUser, newIsLoading)

SpecRoutes == InitRoutes /\ [][NextRoutes]_vars

(***************************************************************************)
(* Dashboard: the transaction fetches with the calls told apart.  Each     *)
(* getTransactions call in flight is kept in requests with the bounds it   *)
(* was issued for, and the backend answers a call with the transactions    *)
(* of the shop whose day lies within the bounds.                           *)
(***************************************************************************)

\* The transactions of the shop: 2, 3, 21 and 59 days before Now0.
FetchShop ==
  << Tx("Sale", <<"phone">>, <<2>>, 250, <<2024, 1, 8, 12>>),
     Tx("Sale", <<"cable">>, <<1>>, 100, <<2024, 1, 10, 2>>),
     Tx("Expense", <<>>, <<>>, 400, <<2023, 12, 20, 12>>),
     Tx("Sale", <<"phone">>, <<1>>, 3200, <<2023, 11, 12, 12>>) >>

\* transactionApi.getTransactions(undefined, from, to): the call, and the
\* list the backend answers it with.
getTransactions(from, to) == [call |-> "getTransactions", from |-> from, to |-> to]

getTransactionsAnswer(call) ==
  LET day(d) == DaysFromCivil(d[1], d[2], d[3])
  IN  SelectSeq(serverTx, LAMBDA t :
        /\ day(call.from) <= day(t.created_at)
        /\ day(t.created_at) <= day(call.to))

\* The effect on [period, customFrom, customTo], with the call it issues.
fetchEffect(p, cFrom, cTo) ==
  LET range == getDateRangeAt(p, cFrom, cTo, now)
  IN  IF loadTransactionsCalls(p, cFrom, cTo)
      THEN /\ pending < MaxPending
           /\ pending' = pending + 1
           /\ requests' = requests (+) SetToBag({getTransactions(range.from, range.to)})
      ELSE pending' = pending /\ requests' = requests

\* onClick of a period button
periodClicked(p) ==
  /\ p # period
  /\ period' = p
  /\ fetchEffect(p, customFrom, customTo)
  /\ UNCHANGED <<tz, now, customFrom, customTo, transactions, summaryVars, pageVars,
                 productVars, showModal, error, formData, editingProduct,
                 isSuperAdmin, search, authVars>>

\* onChange of the two date inputs of the custom period
customFromChanged(d) ==
  /\ period = "custom"
  /\ d # customFrom
  /\ customFrom' = d
  /\ fetchEffect(period, d, customTo)
  /\ UNCHANGED <<tz, now, period, customTo, transactions, summaryVars, pageVars,
                 productVars, showModal, error, formData, editingProduct,
                 isSuperAdmin, search, authVars>>

customToChanged(d) ==
  /\ period = "custom"
  /\ d # customTo
  /\ customTo' = d
  /\ fetchEffect(period, customFrom, d)
  /\ UNCHANGED <<tz, now, period, customFrom, transactions, summaryVars, pageVars,
                 productVars, showModal, error, formData, editingProduct,
                 isSuperAdmin, search, authVars>>

\* loadTransactions after its await: the backend has answered the call
getTransactionsResolved(call) ==
  /\ BagIn(call, requests)
  /\ requests' = Settled(call)
  /\ pending' = pending - 1
  /\ transactions' = getTransactionsAnswer(call)
  /\ UNCHANGED <<tz, now, chartVars, summaryVars, pageVars, productVars,
                 showModal, error, formData, editingProduct, isSuperAdmin,
                 search, authVars>>

\* The Dashboard once mounted, the call of its first effect in flight.
InitFetch ==
  /\ tz = 1
  /\ now = Now0
  /\ period = "30j"
  /\ customFrom = <<>>
  /\ customTo = <<>>
  /\ transactions = <<>>
  /\ pending = 1
  /\ data = <<>>
  /\ loading = TRUE
  /\ serverProducts = <<>>
  /\ serverTx = FetchShop
  /\ filterType = ""
  /\ dateFrom = <<>>
  /\ dateTo = <<>>
  /\ products = <<>>
  /\ pendingProducts = 0
  /\ showModal = FALSE
  /\ error = ""
  /\ formData = <<>>
  /\ editingProduct = <<>>
  /\ isSuperAdmin = TRUE
  /\ search = ""
  /\ requests = SetToBag({getTransactions(getDateRange.from, getDateRange.to)})
  /\ SignedInAt("/dashboard")

NextFetch ==
  \/ \E p \in {"7j", "30j", "90j", "custom"} : periodClicked(p)
  \/ \E d \in {<<>>, <<2024, 1, 9>>, <<2024, 1, 11>>} : customFromChanged(d)
  \/ \E d \in {<<>>, <<2024, 1, 9>>, <<2024, 1, 11>>} : customToChanged(d)
  \/ \E call \in BagToSet(requests) : getTransactionsResolved(call)

SpecFetch == InitFetch /\ [][NextFetch]_vars

(***************************************************************************)
(* What the charts are to show, stated on calendar days and weeks.         *)
(***************************************************************************)

\* The day number of a 'YYYY-MM-DD' date and the 'dd/mm' label of a day.
DayNumber(s) == DaysFromCivil(s[1], s[2], s[3])
LabelOfDay(z) == <<CivilFromDays(z)[3], CivilFromDays(z)[2]>>

\* The local calendar day of a transaction, and the Monday of its week.
LocalDayOf(t) == (ParseTimestamp(t.created_at) + tz) \div 24
MondayOf(z) == z - ((z + 3) % 7)

IsSale(t) == t.type = "Sale"
IsSpending(t) == t.type \in {"Expense", "Withdrawal"}

RECURSIVE SumOf(_, _)
SumOf(seq, i) == IF i > Len(seq) THEN 0 ELSE seq[i] + SumOf(seq, i + 1)

\* The sum of the amounts of the transactions of a list.
AmountOf(sel) == SumOf([i \in 1..Len(sel) |-> sel[i].amount], 1)

\* The range is supplied and is not inverted.
ValidRange ==
  /\ getDateRange.from # <<>>
  /\ getDateRange.to # <<>>
  /\ DayNumber(getDateRange.from) <= DayNumber(getDateRange.to)

\* C1: for a range D0 <= D1 the daily series has one point per calendar
\* day of D0..D1, in ascending order (so D1 - D0 + 1 points), and the point
\* of a day without a Sale has value 0.
C1_OnePointPerDay ==
  ValidRange =>
    LET D0 == DayNumber(getDateRange.from)
        D1 == DayNumber(getDateRange.to)
    IN  /\ Len(salesByDay) = D1 - D0 + 1
        /\ \A i \in 1..Len(salesByDay) :
             /\ salesByDay[i].date = LabelOfDay(D0 + i - 1)
             /\ (\A k \in 1..Len(transactions) :
                   ~(IsSale(transactions[k]) /\ LocalDayOf(transactions[k]) = D0 + i - 1))
                => salesByDay[i].ventes = 0

\* C2: for a range D0 <= D1 of any length, the value of the point of each
\* day of D0..D1 is the sum of the amounts of the Sale transactions of that
\* calendar day, and of no other transaction.
C2_PointIsSumOfItsDay ==
  ValidRange =>
    LET D0 == DayNumber(getDateRange.from)
    IN  \A i \in 1..Len(salesByDay) :
          salesByDay[i].ventes =
            AmountOf(SelectSeq(transactions, LAMBDA t : IsSale(t) /\ LocalDayOf(t) = D0 + i - 1))

\* C3: every transaction is filed under the label of the Monday that begins
\* its week, and two transactions share a bucket exactly when they are of
\* the same Monday-to-Sunday week.
C3_BucketIsItsWeek ==
  \A i, j \in 1..Len(transactions) :
    LET a == transactions[i]
        b == transactions[j]
    IN  /\ weekKey(a) = LabelOfDay(MondayOf(LocalDayOf(a)))
        /\ \E k \in 1..Len(salesVsExpenses) : salesVsExpenses[k].semaine = weekKey(a)
        /\ (weekKey(a) = weekKey(b)) <=> (MondayOf(LocalDayOf(a)) = MondayOf(LocalDayOf(b)))

\* C4: the bucket of each week holds, as ventes, the sum of the Sale amounts
\* of that week and, as depenses, the sum of its Expense and Withdrawal
\* amounts; so the buckets add up to the totals of the list.
C4_BucketSumsOfItsWeek ==
  /\ \A i \in 1..Len(transactions) : \A k \in 1..Len(salesVsExpenses) :
       LET a == transactions[i]
           SameWeek(t) == MondayOf(LocalDayOf(t)) = MondayOf(LocalDayOf(a))
       IN  salesVsExpenses[k].semaine = weekKey(a) =>
             /\ salesVsExpenses[k].ventes =
                  AmountOf(SelectSeq(transactions, LAMBDA t : IsSale(t) /\ SameWeek(t)))
             /\ salesVsExpenses[k].depenses =
                  AmountOf(SelectSeq(transactions, LAMBDA t : IsSpending(t) /\ SameWeek(t)))
  /\ SumOf([k \in 1..Len(salesVsExpenses) |-> salesVsExpenses[k].ventes], 1)
       = AmountOf(SelectSeq(transactions, IsSale))
  /\ SumOf([k \in 1..Len(salesVsExpenses) |-> salesVsExpenses[k].depenses], 1)
       = AmountOf(SelectSeq(transactions, IsSpending))

\* The product names that occur on a Sale with a non-empty product name,
\* and what was sold under a name.
SoldNames ==
  {transactions[i].product[1] : i \in {k \in 1..Len(transactions) :
      /\ IsSale(transactions[k])
      /\ transactions[k].product # <<>>
      /\ transactions[k].product # <<"">>}}

RevenueOf(name) == AmountOf(SelectSeq(transactions, LAMBDA t : IsSale(t) /\ t.product = <<name>>))

QuantityOf(name) ==
  LET sel == SelectSeq(transactions, LAMBDA t : IsSale(t) /\ t.product = <<name>>)
  IN  SumOf([i \in 1..Len(sel) |-> IF sel[i].quantity = <<>> THEN 0 ELSE sel[i].quantity[1]], 1)

KeptNames == {topProducts[i].produit : i \in 1..Len(topProducts)}

\* C5: the top-product list has at most 8 entries, in order of non-increasing
\* revenue, and when more than 8 product names have sales no product left
\* out has strictly more revenue than one that is kept.
C5_TopEightByRevenue ==
  /\ Len(topProducts) <= 8
  /\ \A i \in 1..(Len(topProducts) - 1) : topProducts[i].montant >= topProducts[i + 1].montant
  /\ Cardinality(SoldNames) > 8 =>
       \A d \in SoldNames \ KeptNames : \A k \in KeptNames : RevenueOf(d) <= RevenueOf(k)

\* C6: before the truncation there is exactly one entry per product name
\* that occurs on a Sale with a non-empty name, carrying the sum of the
\* amounts and the sum of the quantities (a missing one counts 0) of the
\* Sales of that name; nothing else makes an entry.
C6_OneEntryPerSoldName ==
  LET ranked == rankedProducts(transactions)
  IN  /\ {ranked[i].produit : i \in 1..Len(ranked)} = SoldNames
      /\ Len(ranked) = Cardinality(SoldNames)
      /\ \A i \in 1..Len(ranked) :
           /\ ranked[i].montant = RevenueOf(ranked[i].produit)
           /\ ranked[i].quantite = QuantityOf(ranked[i].produit)

(***************************************************************************)
(* What the totals, the cards and the low-stock table are to show.         *)
(***************************************************************************)

\* The sum of f[i] over the indices i of S.
RECURSIVE SumOver(_, _)
SumOver(S, f) ==
  IF S = {} THEN 0
  ELSE LET i == CHOOSE x \in S : TRUE IN f[i] + SumOver(S \ {i}, f)

SaleIndices == {i \in 1..Len(transactions) : transactions[i].type = "Sale"}

\* C7: the total of items sold is the sum of the quantities of the Sale
\* transactions, a missing quantity counting 0; the quantity of an Expense
\* or a Withdrawal is not counted.
C7_ItemsSoldOfSalesOnly ==
  totalItemsSold =
    SumOver(SaleIndices,
            [i \in 1..Len(transactions) |->
               IF transactions[i].quantity = <<>> THEN 0 ELSE transactions[i].quantity[1]])

\* A list with a Sale that has a quantity next to a spending record that
\* has one too.
C7_Witness ==
  /\ ~loading
  /\ totalItemsSold > 0
  /\ \E i \in 1..Len(transactions) :
       IsSpending(transactions[i]) /\ transactions[i].quantity # <<>>

\* C8: the total of sales is the sum of the stored amounts of the Sale
\* transactions; Expense and Withdrawal amounts are left out, and the
\* empty list gives 0.
C8_TotalSalesOfSalesOnly ==
  /\ totalSalesAmount =
       SumOver(SaleIndices, [i \in 1..Len(transactions) |-> transactions[i].amount])
  /\ transactions = <<>> => totalSalesAmount = 0

\* A list with a Sale next to a spending record.
C8_Witness ==
  /\ ~loading
  /\ totalSalesAmount > 0
  /\ \E i \in 1..Len(transactions) : IsSpending(transactions[i])

\* The amount, in cents, that a card shows.
Shown(f) == (IF f.minus THEN -1 ELSE 1) * (f.dollars * 100 + f.cents)

\* C9: in every state of the Dashboard the net profit shown is the total of
\* sales shown minus the total of expenses shown.
C9_NetProfitShown ==
  Shown(stats.netProfit) = Shown(stats.totalSales) - Shown(stats.totalExpenses)

\* A loaded summary with sales and a negative net profit.
C9_Witness ==
  /\ ~loading
  /\ data # <<>>
  /\ Shown(stats.totalSales) > 0
  /\ Shown(stats.netProfit) < 0

ShownLowStockIds == {lowStockRows[i].id : i \in 1..Len(lowStockRows)}

LowStockIds ==
  {serverProducts[i].id : i \in {k \in 1..Len(serverProducts) : serverProducts[k].stock < 5}}

WeeksOf == {MondayOf(LocalDayOf(transactions[i])) : i \in 1..Len(transactions)}

\* C11: the weekly series has no bucket for a week without a transaction:
\* every bucket carries the label of the Monday of the week of some
\* transaction of the list, and there are no more buckets than weeks with a
\* transaction, so no week between two populated weeks is made up.
C11_NoBucketWithoutTransaction ==
  /\ \A k \in 1..Len(salesVsExpenses) : \E i \in 1..Len(transactions) :
       salesVsExpenses[k].semaine = LabelOfDay(MondayOf(LocalDayOf(transactions[i])))
  /\ Len(salesVsExpenses) <= Cardinality(WeeksOf)

\* Two transactions in weeks that are more than a week apart, and two
\* buckets.
C11_Witness ==
  /\ Len(transactions) = 2
  /\ \E a, b \in WeeksOf : b - a > 7
  /\ Len(salesVsExpenses) = 2

\* The four digits of a 'dd/mm' label, in the order they stand in the string;
\* the slash is at the same place in every label.
LabelDigits(l) == <<l[1] \div 10, l[1] % 10, l[2] \div 10, l[2] % 10>>

\* One string of digits comes before another of the same length.
DigitsLess(a, b) ==
  \E i \in 1..Len(a) : a[i] < b[i] /\ \A j \in 1..(i - 1) : a[j] = b[j]

\* C12: the buckets of the weekly series are in strictly ascending order of
\* their label (as a string), so no two buckets have the same label.
C12_BucketsSortedByLabel ==
  \A k \in 1..(Len(salesVsExpenses) - 1) :
    DigitsLess(LabelDigits(salesVsExpenses[k].semaine),
               LabelDigits(salesVsExpenses[k + 1].semaine))

\* Two buckets whose order is not the order their weeks come in the list.
C12_Witness ==
  /\ Len(salesVsExpenses) = 2
  /\ salesVsExpenses[1].semaine # weekKey(transactions[1])

\* Both bounds are supplied and the first is after the second.
InvertedRange ==
  /\ getDateRange.from # <<>>
  /\ getDateRange.to # <<>>
  /\ DayNumber(getDateRange.from) > DayNumber(getDateRange.to)

\* C13: on an inverted range (D0 > D1, both supplied) the daily series is
\* empty, whatever the transaction list holds.
C13_InvertedRangeGivesNoPoint == InvertedRange => salesByDay = <<>>

\* An inverted custom range around the local day of a Sale of the list.
C13_Witness ==
  /\ InvertedRange
  /\ \E i \in 1..Len(transactions) :
       /\ IsSale(transactions[i])
       /\ DayNumber(getDateRange.to) <= LocalDayOf(transactions[i])
       /\ LocalDayOf(transactions[i]) <= DayNumber(getDateRange.from)

(***************************************************************************)
(* The daily series when no range is supplied.                             *)
(***************************************************************************)

\* The custom period with one of its bounds left empty.
NoRange == period = "custom" /\ (customFrom = <<>> \/ customTo = <<>>)

\* The local calendar days that have a Sale, and the k-th of them in
\* ascending order.
SaleDays == {LocalDayOf(transactions[i]) : i \in SaleIndices}

NthDay(S, k) == CHOOSE d \in S : Cardinality({e \in S : e < d}) = k - 1

\* C14: when no range is supplied the daily series has exactly one point per
\* day that has a Sale, carrying the total of the Sales of that day, and the
\* points are in ascending order of day whatever the order of the list.
C14_OnePointPerSaleDayAscending ==
  NoRange =>
    /\ Len(salesByDay) = Cardinality(SaleDays)
    /\ \A k \in 1..Len(salesByDay) : k <= Cardinality(SaleDays) =>
         LET d == NthDay(SaleDays, k)
         IN  /\ salesByDay[k].date = LabelOfDay(d)
             /\ salesByDay[k].ventes =
                  AmountOf(SelectSeq(transactions, LAMBDA t : IsSale(t) /\ LocalDayOf(t) = d))

(***************************************************************************)
(* The daily series and the moment it is computed at.                      *)
(***************************************************************************)

\* C17: the daily series depends on the transaction list and on the period
\* selection only: computed now, it is the series that the same list and
\* the same selection gave when the page was mounted.
C17_SeriesSameAtAnyMoment ==
  salesByDayOf(transactions, getDateRangeAt(period, customFrom, customTo, now))
    = salesByDayOf(transactions, getDateRangeAt(period, customFrom, customTo, Now0))

(***************************************************************************)
(* The Dashboard of a shop without transactions and without products.      *)
(***************************************************************************)

EmptyShop == serverTx = <<>> /\ serverProducts = <<>>

\* Every card of the summary shows zero.
SummaryAllZero ==
  /\ Shown(stats.totalSales) = 0
  /\ Shown(stats.totalExpenses) = 0
  /\ Shown(stats.netProfit) = 0
  /\ stats.itemsSold = 0
  /\ stats.totalProducts = 0
  /\ stats.totalTransactions = 0

ProductOrQuantityChanged ==
  /\ formData.type = "Sale"
  /\ formData'.type = "Sale"
  /\ formData'.product_id # formData.product_id \/ formData'.quantity # formData.quantity
  /\ findProduct(formData'.product_id) # <<>>
  /\ formData'.quantity # <<>>

\* The amount field holds price times the number the quantity field holds
\* (a number input's text is read as a decimal number; parseFloat counts it
\* in hundredths).
AmountIsPriceTimesQuantity(form) ==
  LET price == findProduct(form.product_id)[1].selling_price
      quantity == parseFloat(form.quantity)
      amount == parseFloat(form.amount)
  IN  /\ ~amount.nan
      /\ ~quantity.nan
      /\ amount.v * 100 = price * quantity.v

\* A step that issues a createTransaction call, and the call it issues.
CallIssued(call) ==
  /\ BagCardinality(requests') = BagCardinality(requests) + 1
  /\ requests' = requests (+) SetToBag({call})

\* C20: whenever the product or the quantity is changed while a known
\* product is selected and the quantity is not empty, the amount field
\* becomes selling_price times quantity; the amount can be edited
\* afterwards, and a call that handleSubmit issues carries the value the
\* amount field holds.
C20_AmountFollowsProductAndQuantity ==
  [][ /\ ProductOrQuantityChanged => AmountIsPriceTimesQuantity(formData')
      /\ \A call \in BagToSet(requests') :
           CallIssued(call) => call.amount = parseFloat(formData.amount)
    ]_vars

(***************************************************************************)
(* The aggregates and the product list.                                    *)
(***************************************************************************)

\* C16: a change of the product list (a selling price, a stock) that leaves
\* the transaction list as it is leaves the daily series, the weekly
\* series, the ranking of the products and the filtered totals as they are.
C16_AggregatesIgnoreProducts ==
  [][ (products' # products /\ transactions' = transactions) =>
        /\ salesByDayOf(transactions', getDateRangeAt(period', customFrom', customTo', now'))
             = salesByDay
        /\ salesVsExpensesOf(transactions') = salesVsExpenses
        /\ topProductsOf(transactions') = topProducts
        /\ totalSalesAmount' = totalSalesAmount
        /\ totalItemsSold' = totalItemsSold
    ]_vars

\* The list of products has come with the changed price and stock and the
\* list of transactions has a sale of the changed product whose amount is
\* not the new price times its quantity.
C16_Witness ==
  /\ products = CatalogueRepriced
  /\ \E i \in 1..Len(transactions) :
       /\ transactions[i].type = "Sale"
       /\ transactions[i].product = <<"cable">>
       /\ transactions[i].quantity # <<>>
       /\ transactions[i].amount # CatalogueRepriced[1].selling_price * transactions[i].quantity[1]
  /\ totalSalesAmount > 0

(***************************************************************************)
(* Who sees the purchase price on the Products page.                       *)
(***************************************************************************)

\* C18: for a user who is not SuperAdmin no card shows the purchase price
\* of its product, and the modal opened on an existing product does not
\* show the purchase price of that product.
C18_PurchasePriceHiddenFromOthers ==
  (~isSuperAdmin /\ ~loading) =>
    /\ \A i \in 1..Len(products) : cardPurchasePrice(products[i]) = <<>>
    /\ (showModal /\ editingProduct # <<>> /\ editingProduct[1].purchase_price # <<>>) =>
         parseFloat(modalPurchasePrice[1]) # Num(editingProduct[1].purchase_price[1])

(***************************************************************************)
(* The scenario of two sales and an expense on two days.                   *)
(***************************************************************************)

\* The charts show the scenario's list over the scenario's two days.
ScenarioShown ==
  /\ period = "custom"
  /\ customFrom = ScenarioDay1
  /\ customTo = ScenarioDay2
  /\ transactions = serverTx

\* The 'dd/mm' label of a 'YYYY-MM-DD' date.
LabelOfDate(d) == <<d[3], d[2]>>

IssuedCalls ==
  {c \in BagToSet(requests') : CopiesIn(c, requests') > CopiesIn(c, requests)}

\* The header that carries the token stored when the step starts.
BearerOfStoredToken == <<"Bearer ", token[1]>>

\* C22 as claimed: the public operations only send GET requests without
\* the token, and every other operation sends the Authorization header of
\* the stored token if and only if a token is stored when it is called.
C22_EveryOtherOperationSendsToken ==
  [][\A c \in IssuedCalls :
       /\ c.call \in publicApi => c.method = "GET" /\ c.Authorization = <<>>
       /\ c.call \notin publicApi =>
            IF token = <<>> THEN c.Authorization = <<>>
            ELSE c.Authorization = BearerOfStoredToken]_vars

\* C22, amended: the public operations only send GET requests without the
\* token; register and login never send the token either; every operation
\* of the six other objects sends the Authorization header of the stored
\* token if and only if a token is stored when it is called.
C22_AuthenticatedOperationsSendToken ==
  [][\A c \in IssuedCalls :
       /\ c.call \in publicApi => c.method = "GET" /\ c.Authorization = <<>>
       /\ c.call \in authApi => c.method = "POST" /\ c.Authorization = <<>>
       /\ c.call \in backOfficeApi =>
            IF token = <<>> THEN c.Authorization = <<>>
            ELSE c.Authorization = BearerOfStoredToken]_vars

\* A product is being created with the header of the stored token.
C22_Witness ==
  /\ token = <<"t1">>
  /\ BagIn([call |-> "createProduct", method |-> "POST",
            Authorization |-> <<"Bearer ", "t1">>], requests)

(***************************************************************************)
(* The route guards and the chains of redirects.                           *)
(***************************************************************************)

\* The pages behind a guard and their paths; those of the SuperAdmin.
GuardedPages == {"Dashboard", "Products", "Transactions", "Users", "Settings"}
GuardedPaths == {"/dashboard", "/products", "/transactions", "/users", "/settings"}
SuperAdminPages == {"Dashboard", "Users", "Settings"}
SuperAdminPaths == {"/dashboard", "/users", "/settings"}

\* C23: once authentication has finished loading, a user who is not
\* SuperAdmin is never rendered Dashboard, Users or Settings (those paths
\* redirect to /products) and a visitor who is not signed in is never
\* rendered a guarded page (those paths redirect to /login); while
\* authentication is loading a guarded path renders only the spinner.
C23_RouteGuards ==
  /\ ~isLoading /\ user # <<>> /\ ~isSuperAdmin =>
       /\ rendered.element \notin SuperAdminPages
       /\ location \in SuperAdminPaths => rendered = Navigate("/products")
  /\ ~isLoading /\ user = <<>> =>
       /\ rendered.element \notin GuardedPages
       /\ location \in GuardedPaths => rendered = Navigate("/login")
  /\ isLoading /\ location \in GuardedPaths => rendered = Element("spinner")

\* An Admin who asked for the dashboard has been taken to the products.
C23_Witness ==
  /\ ~isLoading
  /\ user = <<[role |-> "Admin"]>>
  /\ history = <<"/dashboard", "/products">>
  /\ rendered = Element("Products")

\* The paths whose chain the claim follows for a signed-in user.
EntryPaths == {"/", "/login", "/register", "/dashboard", "/nowhere", "/products/p1"}

\* C30: for every value of the authentication state and every requested
\* path the chain of redirects has no loop and ends after at most three
\* redirects; once authentication has finished loading, the page it ends
\* on is /login, /register or a public shop for a visitor who is not
\* signed in, /products for an Admin who asked for /, /login, /register,
\* /dashboard or an unknown path, and /dashboard for a SuperAdmin who did.
C30_RedirectsEnd ==
  /\ Len(history) <= 4
  /\ \A i, j \in 1..Len(history) : history[i] = history[j] => i = j
  /\ Len(history) = 4 => rendered.element # "Navigate"
  /\ ~isLoading /\ rendered.element # "Navigate" =>
       /\ user = <<>> => location \in {"/login", "/register"} \cup ShopPaths
       /\ user # <<>> /\ ~isSuperAdmin /\ history[1] \in EntryPaths =>
            location = "/products" /\ rendered = Element("Products")
       /\ user # <<>> /\ isSuperAdmin /\ history[1] \in EntryPaths =>
            location = "/dashboard" /\ rendered = Element("Dashboard")

\* An Admin who asked for an unknown path has reached the products after
\* three redirects.
C30_Witness ==
  /\ ~isLoading
  /\ user = <<[role |-> "Admin"]>>
  /\ history = <<"/nowhere", "/", "/dashboard", "/products">>
  /\ rendered.element = "Products"

(***************************************************************************)
(* The transaction fetches of the Dashboard and the order they complete    *)
(* in.                                                                     *)
(***************************************************************************)

\* The call loadTransactions issues for the selection on screen.
CurrentCall == getTransactions(getDateRange.from, getDateRange.to)

\* C24: once every fetch has completed, the transaction list of the charts
\* is the response to the fetch issued for the selection on screen,
\* whatever the order the fetches completed in.
C24_LatestSelectionWins ==
  (pending = 0 /\ loadTransactionsCalls(period, customFrom, customTo)) =>
    transactions = getTransactionsAnswer(CurrentCall)

(***************************************************************************)
(* The weekly series and the calendar.                                     *)
(***************************************************************************)

\* The Mondays, among the weeks that have a transaction, that a bucket
\* label stands for.
MondaysOfLabel(label) == {z \in WeeksOf : LabelOfDay(z) = label}

\* C25: the buckets of the weekly series are in chronological order of
\* their week-start Monday: the Monday of a bucket is before the Monday of
\* every bucket that follows it.
C25_BucketsInCalendarOrder ==
  \A k, l \in 1..Len(salesVsExpenses) :
    k < l => \A a \in MondaysOfLabel(salesVsExpenses[k].semaine),
                b \in MondaysOfLabel(salesVsExpenses[l].semaine) : a < b

(***************************************************************************)
(* The custom period with a bound left empty.                              *)
(***************************************************************************)

\* A step that changes the selection and leaves it on the custom period
\* with one of its bounds empty.
CustomSelectedWithEmptyBound ==
  /\ chartVars' # chartVars
  /\ period' = "custom"
  /\ customFrom' = <<>> \/ customTo' = <<>>

\* C26: selecting the custom period while a custom bound is empty issues no
\* getTransactions call and leaves the transaction list as it was, so the
\* charts go on being computed from the list fetched before.
C26_EmptyBoundFetchesNothing ==
  [][CustomSelectedWithEmptyBound =>
       /\ requests' = requests
       /\ pending' = pending
       /\ transactions' = transactions]_vars

\* The custom period has been selected with its bounds empty after the
\* list of the last 30 days had arrived: the list is still there.
C26_Witness ==
  /\ period = "custom"
  /\ customFrom = <<>>
  /\ customTo = <<>>
  /\ pending = 0
  /\ Len(transactions) = 3

(***************************************************************************)
(* The new-transaction form: a Sale without product or quantity, and a     *)
(* createTransaction call that fails.                                      *)
(***************************************************************************)

\* The form is that of a Sale whose product or quantity is empty.
SaleWithoutProductOrQuantity ==
  /\ formData.type = "Sale"
  /\ formData.product_id = "" \/ formData.quantity = <<>>

\* Nothing is reloaded and the two lists stay as they are.
NoReload ==
  /\ pending' = pending
  /\ pendingProducts' = pendingProducts
  /\ transactions' = transactions
  /\ products' = products

\* A step in which a createTransaction call fails.
CreateTransactionFails ==
  \E call \in BagToSet(requests), message \in ServerMessages :
    createTransactionRejected(call, message)

\* C27: submitting a Sale whose product or quantity is empty sets the
\* error 'Product and quantity are required for sales', sends no
\* createTransaction call, leaves the modal open and the two lists
\* unchanged; a createTransaction call that fails leaves the modal as it
\* is, sets the error message and reloads nothing.
C27_RejectedSubmitKeepsModal ==
  [][/\ (handleSubmit /\ SaleWithoutProductOrQuantity) =>
          /\ error' = "Product and quantity are required for sales"
          /\ requests' = requests
          /\ showModal'
          /\ formData' = formData
          /\ NoReload
     /\ CreateTransactionFails =>
          /\ error' \in ServerMessages
          /\ error' # ""
          /\ showModal' = showModal
          /\ formData' = formData
          /\ NoReload]_vars

\* A Sale without a product has been submitted: the modal is open with
\* the error and no call is in flight.
C27_Witness ==
  /\ showModal
  /\ formData.type = "Sale"
  /\ formData.product_id = ""
  /\ error = "Product and quantity are required for sales"
  /\ requests = EmptyBag

(***************************************************************************)
(* The product form: what a submission sends and what its outcome does.    *)
(***************************************************************************)

\* The steps in which a createProduct or updateProduct call fails, and
\* succeeds.
ProductSaveFails == \E call \in BagToSet(requests) : productNotSaved(call)
ProductSaveSucceeds == \E call \in BagToSet(requests) : productSaved(call)

\* A step that opens the modal, on a product of the list or on none.
ProductModalOpened ==
  \/ productsHandleOpenModal(<<>>)
  \/ \E i \in 1..Len(products) : productsHandleOpenModal(<<products[i]>>)

\* C28: a createProduct or updateProduct call that fails leaves the modal
\* and editingProduct as they are, sets the error message and issues no
\* product reload; one that succeeds closes the modal, sets editingProduct
\* to null, empties the error and issues exactly one product reload.  A
\* submission sends updateProduct for the product the modal was opened on
\* when it was opened on a product, and createProduct otherwise.
C28_ProductSubmission ==
  [][/\ ProductSaveFails =>
          /\ showModal' = showModal
          /\ editingProduct' = editingProduct
          /\ error' \in {"Failed to create product", "Failed to update product"}
          /\ pendingProducts' = pendingProducts
          /\ products' = products
     /\ ProductSaveSucceeds =>
          /\ ~showModal'
          /\ editingProduct' = <<>>
          /\ error' = ""
          /\ pendingProducts' = pendingProducts + 1
     /\ productsHandleSubmit =>
          \E call \in BagToSet(requests') :
            /\ requests' = requests (+) SetToBag({call})
            /\ IF editingProduct # <<>>
               THEN call.call = "updateProduct" /\ call.id = <<editingProduct[1].id>>
               ELSE call.call = "createProduct" /\ call.id = <<>>
     /\ (showModal /\ showModal' /\ editingProduct' # editingProduct) =>
          ProductModalOpened]_vars

\* An update has failed: the modal is still open on the product, with the
\* error, and no reload is in flight.
C28_Witness ==
  /\ showModal
  /\ editingProduct # <<>>
  /\ error = "Failed to update product"
  /\ requests = EmptyBag
  /\ pendingProducts = 0

(***************************************************************************)
(* Transactions page: the sales-by-date view and the two totals.           *)
(***************************************************************************)

\* C29: every Sale of the list belongs to exactly one group of the
\* sales-by-date view: the counts of the groups add up to the number of
\* Sale transactions, their totalItems to totalItemsSold and their
\* totalAmount to totalSalesAmount.
C29_GroupsPartitionSales ==
  LET list == salesByDateList
      sales == SelectSeq(transactions, IsSale)
      groups == 1..Len(list)
  IN  /\ \A i \in 1..Len(sales) :
           Cardinality({k \in groups :
             list[k].date = toLocaleDateString(sales[i].created_at)}) = 1
      /\ SumOf([k \in groups |-> list[k].count], 1) = Len(sales)
      /\ SumOf([k \in groups |-> list[k].totalItems], 1) = totalItemsSold
      /\ SumOf([k \in groups |-> list[k].totalAmount], 1) = totalSalesAmount

\* Two sales of the same day, one of them without a quantity, in one
\* group.
C29_Witness ==
  /\ Len(transactions) = 2
  /\ Len(salesByDateList) = 1
  /\ salesByDateList[1].count = 2
  /\ salesByDateList[1].totalItems = 1
  /\ salesByDateList[1].totalAmount = 3150

====
